---- MODULE Spec2Model ----
(***************************************************************************)
(* Verification model of two subsystems of the FPGA fabric generator:      *)
(*  - configuration-bit allocation for switch blocks and connection boxes  *)
(*    (vpr7_x2p/vpr/SRC/fpga_x2p/verilog/verilog_routing.c)                *)
(*  - clock routing-resource-graph extension                               *)
(*    (openfpga/src/annotation/append_clock_rr_graph.cpp)                  *)
(***************************************************************************)
EXTENDS Integers, Sequences, FiniteSets, TLC

VARIABLES
  \* ---- routing netlist generation (print_verilog_routing_resources) ----
  cfg,          \* inputs of one run: compact flag, sram organisation, mux technology, device
  pc,           \* position inside print_verilog_routing_resources
  idx,          \* index of the loop under way
  cur,          \* cur_sram_orgz_info: the process-wide counter
  stamped,      \* stamped_sram_orgz_info: the snapshot, NoInfo when none is alive
  gsb_conf,     \* device_rr_gsb: [lsb, msb, reserved] recorded per block instance
  info_conf,    \* sb_info / cbx_info / cby_info: the same of the flat data structures
  entry_cnt,    \* history: the counter at the moment of the last snapshot
  uniq_log,     \* history: one record per unique-module netlist emitted
  inst_log,     \* history: one record per block allocated, in allocation order
  ref,          \* history: result of the compact run kept for a second, flat run
  \* ---- clock graph extension (append_clock_rr_graph) ----
  clk,          \* inputs: grid, through_channel, channel existence, clock network
  clk_pc,       \* position inside append_clock_rr_graph
  clk_idx,      \* index of the tile loop under way
  rr_nodes,     \* nodes appended to the routing resource graph, in creation order
  rr_edges,     \* edges appended to the routing resource graph
  clk_lookup,   \* RRClockSpatialLookup: key -> node id
  clk_est,      \* num_clock_nodes: the estimate
  clk_status,   \* value returned to the caller
  clk_adds      \* history: number of add_node registrations

rvars == <<cfg, pc, idx, cur, stamped, gsb_conf, info_conf, entry_cnt, uniq_log, inst_log, ref>>
cvars == <<clk, clk_pc, clk_idx, rr_nodes, rr_edges, clk_lookup, clk_est, clk_status, clk_adds>>
vars == <<cfg, pc, idx, cur, stamped, gsb_conf, info_conf, entry_cnt, uniq_log, inst_log, ref,
          clk, clk_pc, clk_idx, rr_nodes, rr_edges, clk_lookup, clk_est, clk_status, clk_adds>>

(***************************************************************************)
(* Bounds                                                                  *)
(***************************************************************************)
MaxRangeX == 2
MaxRangeY == 2
MaxGrid == 3
MaxTrees == 2
MaxLevels == 2
MaxMuxSize == 4
MaxEntry == 3

(***************************************************************************)
(* Generic helpers                                                         *)
(***************************************************************************)
RECURSIVE SumFn(_, _)
SumFn(f, n) == IF n = 0 THEN 0 ELSE f[n] + SumFn(f, n - 1)

RECURSIVE MaxFn(_, _)
MaxFn(f, n) == IF n = 0 THEN 0
               ELSE LET r == MaxFn(f, n - 1) IN IF f[n] > r THEN f[n] ELSE r

RECURSIVE CeilLog2(_)
CeilLog2(n) == IF n <= 1 THEN 0 ELSE 1 + CeilLog2((n + 1) \div 2)

(***************************************************************************)
(* The device: a range of GSB tiles, each holding one switch block and an  *)
(* X and a Y connection box.                                               *)
(***************************************************************************)
\* Mutation: the passing-wire test of the emitters never holds.
ChanNode_never_passing(dir, seg, ndrv, opp) ==
  [dir |-> dir, seg |-> seg, num_drive_rr_nodes |-> ndrv,
   opposite |-> opp, passing |-> FALSE, imply_short |-> opp]

ChanNode(dir, seg, ndrv, opp) ==
  [dir |-> dir, seg |-> seg, num_drive_rr_nodes |-> ndrv,
   opposite |-> opp, passing |-> opp, imply_short |-> opp]

IpinNode(ndrv) == [num_drive_rr_nodes |-> ndrv, fan_in |-> ndrv, drive_type |-> "CHAN"]

\* An input pin fed by a direct connection from a block output pin.
DirectIpinNode == [num_drive_rr_nodes |-> 1, fan_in |-> 1, drive_type |-> "OPIN"]

\* Switch block of a tile kind: one sequence of channel nodes per side.
SBShape(k) ==
  IF k = 1
  THEN << << ChanNode("OUT", 0, 3, FALSE), ChanNode("IN", 0, 2, FALSE),
             ChanNode("OUT", 1, 2, FALSE) >>,
          << ChanNode("OUT", 0, 2, TRUE), ChanNode("OUT", 0, 1, FALSE),
             ChanNode("IN", 1, 0, FALSE) >> >>
  ELSE << << ChanNode("OUT", 0, 1, FALSE), ChanNode("OUT", 0, 0, FALSE),
             ChanNode("IN", 0, 0, FALSE) >>,
          << ChanNode("OUT", 0, 0, TRUE) >> >>

\* Connection box of a tile kind and channel type: one sequence of input
\* pin nodes per side that has input pins.
CBShape(k, t) ==
  IF k = 1
  THEN IF t = "CHANX" THEN << << IpinNode(2), IpinNode(1) >>, << IpinNode(4) >> >>
                      ELSE << << IpinNode(3) >> >>
  ELSE IF t = "CHANX" THEN << >>
                      ELSE << << IpinNode(1), IpinNode(2), DirectIpinNode >> >>

TileKinds == {1, 2}
ChanTypes == {"CHANX", "CHANY"}

RangeX(d) == d.range[1]
RangeY(d) == d.range[2]
Tiles(d) == (0 .. RangeX(d) - 1) \X (0 .. RangeY(d) - 1)
NumTiles(d) == RangeX(d) * RangeY(d)

\* The tile visited at position p of a loop "for ix ... for iy ...".
ScanTile(d, p) == << p \div RangeY(d), p % RangeY(d) >>

get_sb(d, tile) == SBShape(d.kind[tile])

\* The X connection boxes sit on chanx[1..nx][0..ny], the Y ones on
\* chany[0..nx][1..ny]: a tile on the low border has none.
get_cb(d, tile, t) ==
  IF (t = "CHANX" /\ tile[1] = 0) \/ (t = "CHANY" /\ tile[2] = 0)
  THEN << >>
  ELSE CBShape(d.kind[tile], t)

\* Unique modules: the first tile, in scan order, of every distinct shape.
RECURSIVE UniqueFrom(_, _, _, _)
UniqueFrom(d, Shape(_), p, acc) ==
  IF p = NumTiles(d) THEN acc
  ELSE LET tile == ScanTile(d, p) IN
       IF \E i \in 1 .. Len(acc) : Shape(acc[i]) = Shape(tile)
       THEN UniqueFrom(d, Shape, p + 1, acc)
       ELSE UniqueFrom(d, Shape, p + 1, Append(acc, tile))

get_sb_unique_module(d) ==
  LET S(tile) == get_sb(d, tile) IN UniqueFrom(d, S, 0, << >>)

get_cb_unique_module(d, t) ==
  LET S(tile) == get_cb(d, tile, t) IN UniqueFrom(d, S, 0, << >>)

(***************************************************************************)
(* The counter (t_sram_orgz_info) and the multiplexer bit costs            *)
(***************************************************************************)
NoInfo == [type |-> "NULL", design_tech |-> "NULL", num_mem_bit |-> 0, num_bl |-> 0, num_wl |-> 0]

get_sram_orgz_info_num_mem_bit(info) == info.num_mem_bit

update_sram_orgz_info_num_mem_bit(info, n) == [info EXCEPT !.num_mem_bit = n]

update_sram_orgz_info_num_blwl(info, bl, wl) == [info EXCEPT !.num_bl = bl, !.num_wl = wl]

snapshot_sram_orgz_info(info) == info

copy_sram_orgz_info(des, src) == src

\* Bits of one multiplexer of fan-in n: a tree of 2-input stages when the
\* multiplexer is CMOS, one bit per input plus one when it is RRAM.
count_num_conf_bits_one_spice_model(info, n) ==
  IF info.design_tech = "RRAM" THEN n + 1 ELSE CeilLog2(n)

\* Reserved bits of one multiplexer: shared BL/WL of an RRAM multiplexer.
count_num_reserved_conf_bits_one_spice_model(info, n) ==
  IF info.design_tech = "RRAM" /\ info.type = "MEMORY_BANK" THEN n ELSE 0

(***************************************************************************)
(* Counting the bits of a switch block (RRGSB flavour)                     *)
(***************************************************************************)
count_verilog_switch_box_interc_conf_bits(info, node) ==
  LET num_drive_rr_nodes == IF node.opposite THEN 0 ELSE node.num_drive_rr_nodes IN
  IF 2 > num_drive_rr_nodes THEN 0
  ELSE count_num_conf_bits_one_spice_model(info, num_drive_rr_nodes)

count_verilog_switch_box_interc_reserved_conf_bits(info, node) ==
  LET num_drive_rr_nodes == IF node.opposite THEN 0 ELSE node.num_drive_rr_nodes IN
  IF 2 > num_drive_rr_nodes THEN 0
  ELSE count_num_reserved_conf_bits_one_spice_model(info, num_drive_rr_nodes)

\* The distinct segment ids of the tracks of one side, in order of first use.
RECURSIVE SegIdsFrom(_, _, _)
SegIdsFrom(side, i, acc) ==
  IF i > Len(side) THEN acc
  ELSE IF \E j \in 1 .. Len(acc) : acc[j] = side[i].seg
       THEN SegIdsFrom(side, i + 1, acc)
       ELSE SegIdsFrom(side, i + 1, Append(acc, side[i].seg))

get_segment_ids(side) == SegIdsFrom(side, 1, << >>)

count_verilog_switch_box_side_conf_bits(info, side, seg_id) ==
  SumFn([i \in 1 .. Len(side) |->
           IF seg_id # side[i].seg THEN 0
           ELSE IF side[i].dir = "OUT"
                THEN count_verilog_switch_box_interc_conf_bits(info, side[i])
                ELSE 0],
        Len(side))

count_verilog_switch_box_conf_bits(info, sb) ==
  SumFn([s \in 1 .. Len(sb) |->
           LET seg_ids == get_segment_ids(sb[s]) IN
           SumFn([g \in 1 .. Len(seg_ids) |->
                    count_verilog_switch_box_side_conf_bits(info, sb[s], seg_ids[g])],
                 Len(seg_ids))],
        Len(sb))

count_verilog_switch_box_side_reserved_conf_bits(info, side, seg_id) ==
  MaxFn([i \in 1 .. Len(side) |->
           IF seg_id # side[i].seg THEN 0
           ELSE IF side[i].dir = "OUT"
                THEN count_verilog_switch_box_interc_reserved_conf_bits(info, side[i])
                ELSE 0],
        Len(side))

\* Mutation: the reserved bits of the sides and segments are added up.
count_verilog_switch_box_reserved_conf_bits_sum(info, sb) ==
  SumFn([s \in 1 .. Len(sb) |->
           LET seg_ids == get_segment_ids(sb[s]) IN
           SumFn([g \in 1 .. Len(seg_ids) |->
                    count_verilog_switch_box_side_reserved_conf_bits(info, sb[s], seg_ids[g])],
                 Len(seg_ids))],
        Len(sb))

count_verilog_switch_box_reserved_conf_bits(info, sb) ==
  MaxFn([s \in 1 .. Len(sb) |->
           LET seg_ids == get_segment_ids(sb[s]) IN
           MaxFn([g \in 1 .. Len(seg_ids) |->
                    count_verilog_switch_box_side_reserved_conf_bits(info, sb[s], seg_ids[g])],
                 Len(seg_ids))],
        Len(sb))

\* Flat (t_sb) flavour: every track of every side, no segment grouping.
count_verilog_switch_box_conf_bits_flat(info, sb) ==
  SumFn([s \in 1 .. Len(sb) |->
           SumFn([i \in 1 .. Len(sb[s]) |->
                    IF sb[s][i].dir = "OUT"
                    THEN count_verilog_switch_box_interc_conf_bits(info, sb[s][i])
                    ELSE 0],
                 Len(sb[s]))],
        Len(sb))

count_verilog_switch_box_reserved_conf_bits_flat(info, sb) ==
  MaxFn([s \in 1 .. Len(sb) |->
           MaxFn([i \in 1 .. Len(sb[s]) |->
                    IF sb[s][i].dir = "OUT"
                    THEN count_verilog_switch_box_interc_reserved_conf_bits(info, sb[s][i])
                    ELSE 0],
                 Len(sb[s]))],
        Len(sb))

(***************************************************************************)
(* Counting the bits of a connection box                                   *)
(***************************************************************************)
count_verilog_connection_box_interc_conf_bits(info, node) ==
  IF 2 > node.num_drive_rr_nodes THEN 0
  ELSE count_num_conf_bits_one_spice_model(info, node.num_drive_rr_nodes)

count_verilog_connection_box_interc_reserved_conf_bits(info, node) ==
  IF 2 > node.num_drive_rr_nodes THEN 0
  ELSE count_num_reserved_conf_bits_one_spice_model(info, node.num_drive_rr_nodes)

count_verilog_connection_box_one_side_conf_bits(info, side) ==
  SumFn([i \in 1 .. Len(side) |->
           count_verilog_connection_box_interc_conf_bits(info, side[i])],
        Len(side))

count_verilog_connection_box_one_side_reserved_conf_bits(info, side) ==
  MaxFn([i \in 1 .. Len(side) |->
           count_verilog_connection_box_interc_reserved_conf_bits(info, side[i])],
        Len(side))

count_verilog_connection_box_conf_bits(info, cb) ==
  SumFn([s \in 1 .. Len(cb) |->
           count_verilog_connection_box_one_side_conf_bits(info, cb[s])],
        Len(cb))

count_verilog_connection_box_reserved_conf_bits(info, cb) ==
  MaxFn([s \in 1 .. Len(cb) |->
           count_verilog_connection_box_one_side_reserved_conf_bits(info, cb[s])],
        Len(cb))

count_cb_info_num_ipin_rr_nodes(cb) ==
  SumFn([s \in 1 .. Len(cb) |-> Len(cb[s])], Len(cb))

is_cb_exist(cb) == Len(cb) > 0

(***************************************************************************)
(* Emitting the interconnects of a block: only the effect on the counter   *)
(* is modelled.  Aborted stands for a failed assertion (the process ends). *)
(***************************************************************************)
Aborted == [NoInfo EXCEPT !.type = "ABORT"]

\* The counter updates at the end of every multiplexer emitter.
MuxCounterUpdate(info, mux_size) ==
  LET cur_num_sram == get_sram_orgz_info_num_mem_bit(info)
      num_mux_conf_bits == count_num_conf_bits_one_spice_model(info, mux_size)
  IN IF info.design_tech = "CMOS"
     THEN update_sram_orgz_info_num_mem_bit(info, cur_num_sram + num_mux_conf_bits)
     ELSE update_sram_orgz_info_num_blwl(
            update_sram_orgz_info_num_mem_bit(info, cur_num_sram + num_mux_conf_bits),
            info.num_bl + num_mux_conf_bits, info.num_wl + num_mux_conf_bits)

dump_verilog_unique_switch_box_mux(info, mux_size) == MuxCounterUpdate(info, mux_size)

dump_verilog_switch_box_mux(info, mux_size) == MuxCounterUpdate(info, mux_size)

dump_verilog_connection_box_mux(info, node) ==
  MuxCounterUpdate(info, node.num_drive_rr_nodes)

dump_verilog_unique_switch_box_interc(info, node) ==
  IF node.passing THEN info
  ELSE IF node.num_drive_rr_nodes = 0 THEN info
  ELSE IF node.num_drive_rr_nodes = 1 THEN info
  ELSE dump_verilog_unique_switch_box_mux(info, node.num_drive_rr_nodes)

\* A node without driver is shorted to its own input on the opposite side,
\* which dump_verilog_switch_box_short_interc asserts to exist.
dump_verilog_switch_box_interc(info, node) ==
  IF node.imply_short
  THEN IF node.opposite THEN info ELSE Aborted
  ELSE IF node.num_drive_rr_nodes = 0 THEN IF node.opposite THEN info ELSE Aborted
  ELSE IF node.num_drive_rr_nodes = 1 THEN info
  ELSE dump_verilog_switch_box_mux(info, node.num_drive_rr_nodes)

dump_verilog_connection_box_interc(info, node) ==
  IF node.fan_in = 1 THEN info
  ELSE IF 1 < node.fan_in THEN dump_verilog_connection_box_mux(info, node)
  ELSE info

\* "Put down all the multiplexers": every node of every side, in order.
RECURSIVE EmitNodes(_, _, _, _)
EmitNodes(info, Interc(_, _), nodes, i) ==
  IF i > Len(nodes) \/ info = Aborted THEN info
  ELSE EmitNodes(Interc(info, nodes[i]), Interc, nodes, i + 1)

RECURSIVE EmitSides(_, _, _, _)
EmitSides(info, Interc(_, _), sides, s) ==
  IF s > Len(sides) \/ info = Aborted THEN info
  ELSE EmitSides(EmitNodes(info, Interc, sides[s], 1), Interc, sides, s + 1)

SBUniqueInterc(info, node) ==
  IF node.dir = "OUT" THEN dump_verilog_unique_switch_box_interc(info, node) ELSE info

SBFlatInterc(info, node) ==
  IF node.dir = "OUT" THEN dump_verilog_switch_box_interc(info, node) ELSE info

\* What the interconnect emitters write to the netlist for one node: the
\* constructs emitted, in order.  A short whose driver is the node itself is
\* the self-loop.
dump_verilog_unique_switch_box_interc_netlist(node) ==
  LET num_drive_rr_nodes == IF node.passing THEN 0 ELSE node.num_drive_rr_nodes IN
  IF ~node.passing /\ node.num_drive_rr_nodes = 0 THEN << >>
  ELSE IF 0 = num_drive_rr_nodes THEN << "self_loop" >>
  ELSE IF 1 = num_drive_rr_nodes THEN << "short" >>
  ELSE << "mux" >>

\* Mutation: a node with two drivers is wired to the first of them.
print_verilog_unique_switch_box_interc_netlist_two_short(node) ==
  LET drive_rr_nodes == IF ~node.passing THEN node.num_drive_rr_nodes ELSE 0 IN
  IF ~node.passing /\ drive_rr_nodes = 0 THEN << >>
  ELSE IF 0 = drive_rr_nodes THEN << "self_loop" >>
  ELSE IF 2 >= drive_rr_nodes THEN << "short" >>
  ELSE << "mux" >>

print_verilog_unique_switch_box_interc_netlist(node) ==
  LET drive_rr_nodes == IF ~node.passing THEN node.num_drive_rr_nodes ELSE 0 IN
  IF ~node.passing /\ drive_rr_nodes = 0 THEN << >>
  ELSE IF 0 = drive_rr_nodes THEN << "self_loop" >>
  ELSE IF 1 = drive_rr_nodes THEN << "short" >>
  ELSE << "mux" >>

\* Reached only when no assertion of the emitter fails.
dump_verilog_switch_box_interc_netlist(node) ==
  LET num_drive_rr_nodes == IF node.imply_short THEN 0 ELSE node.num_drive_rr_nodes IN
  IF 0 = num_drive_rr_nodes THEN << "self_loop" >>
  ELSE IF 1 = num_drive_rr_nodes THEN << "short" >>
  ELSE << "mux" >>

\* What the connection box emitters write for one input pin.
dump_verilog_connection_box_short_interc_netlist(node) ==
  IF node.drive_type = "OPIN" THEN << >> ELSE << "short" >>

\* Mutation: two drivers are wired as a short.
dump_verilog_connection_box_interc_netlist_mux_from_three(node) ==
  IF node.fan_in = 1 \/ node.fan_in = 2
  THEN dump_verilog_connection_box_short_interc_netlist(node)
  ELSE IF 2 < node.fan_in THEN << "mux" >>
  ELSE << >>

dump_verilog_connection_box_interc_netlist(node) ==
  IF node.fan_in = 1 THEN dump_verilog_connection_box_short_interc_netlist(node)
  ELSE IF 1 < node.fan_in THEN << "mux" >>
  ELSE << >>

\* The input pin nodes of a connection box, side by side.
RECURSIVE CBNodesFrom(_, _)
CBNodesFrom(cb, s) == IF s > Len(cb) THEN << >> ELSE cb[s] \o CBNodesFrom(cb, s + 1)

cb_ipin_nodes(cb) == CBNodesFrom(cb, 1)

\* The netlist lines and the bits charged, pin by pin.
CBPins(info, cb) ==
  [i \in 1 .. Len(cb_ipin_nodes(cb)) |->
     [interc |-> dump_verilog_connection_box_interc_netlist(cb_ipin_nodes(cb)[i]),
      bits |-> count_verilog_connection_box_interc_conf_bits(info, cb_ipin_nodes(cb)[i])]]

\* The routing solution: which driver, if any, is the predecessor (prev_node)
\* of every routed sink.  A run without the field has no net routed.
Routes == { "unrouted", "first_driver", "last_driver" }

RouteOf(c) == IF "route" \in DOMAIN c THEN c.route ELSE "unrouted"

\* Position of rr_node[prev_node] among the drivers of a multiplexer, -1
\* when it is none of them.
prev_node(route, mux_size) ==
  IF route = "first_driver" THEN 0
  ELSE IF route = "last_driver" THEN mux_size - 1
  ELSE -1

DEFAULT_PATH_ID == 0

\* "Configuration bits for this MUX": the path the decoder is given.
select_path_id(route, mux_size) ==
  IF \E inode \in 0 .. mux_size - 1 : inode = prev_node(route, mux_size)
  THEN prev_node(route, mux_size)
  ELSE DEFAULT_PATH_ID

\* The path ids of a block's netlist: one per multiplexer, in sink order.
path_annotation(route, sizes) ==
  [i \in 1 .. Len(sizes) |->
     IF sizes[i] >= 2 THEN << select_path_id(route, sizes[i]) >> ELSE << >>]

\* The output-direction channel nodes of a switch block, side by side.
RECURSIVE OutNodesFrom(_, _)
OutNodesFrom(sb, s) ==
  IF s = 0 THEN << >>
  ELSE OutNodesFrom(sb, s - 1) \o SelectSeq(sb[s], LAMBDA n : n.dir = "OUT")

sb_out_nodes(sb) == OutNodesFrom(sb, Len(sb))

\* Result of a block-level emitter: the counter it leaves and the range it
\* wrote on its block.
Emitted(info, after, esti_sram_cnt, bits, reserved, msb) ==
  [info |-> IF after # Aborted /\ esti_sram_cnt = get_sram_orgz_info_num_mem_bit(after)
            THEN after ELSE Aborted,
   bits |-> bits, reserved |-> reserved,
   lsb |-> get_sram_orgz_info_num_mem_bit(info), msb |-> msb]

dump_verilog_routing_switch_box_unique_subckt(info, sb) ==
  LET num_conf_bits == count_verilog_switch_box_conf_bits(info, sb)
      num_reserved_conf_bits == count_verilog_switch_box_reserved_conf_bits(info, sb)
      cur_num_sram == get_sram_orgz_info_num_mem_bit(info)
      esti_sram_cnt == cur_num_sram + num_conf_bits
  IN Emitted(info, EmitSides(info, SBUniqueInterc, sb, 1), esti_sram_cnt,
             num_conf_bits, num_reserved_conf_bits, cur_num_sram + num_conf_bits - 1)

\* The conversion of an int to size_t. size_t has 64 bits and the integers of
\* the model 32, so the conversion is taken modulo 2^30; the one negative
\* value ever converted is -1, which becomes the largest value at any width.
size_t(v) == v % (2 ^ 30)

\* The module-manager twin: reads the counter, leaves it alone; it converts
\* what it records to size_t.
print_verilog_routing_switch_box_unique_module(info, sb) ==
  LET num_conf_bits == count_verilog_switch_box_conf_bits(info, sb)
      num_reserved_conf_bits == count_verilog_switch_box_reserved_conf_bits(info, sb)
      cur_num_sram == get_sram_orgz_info_num_mem_bit(info)
  IN [info |-> info, bits |-> num_conf_bits, reserved |-> size_t(num_reserved_conf_bits),
      lsb |-> size_t(cur_num_sram), msb |-> size_t(cur_num_sram + num_conf_bits - 1)]

dump_verilog_routing_connection_box_unique_module(info, cb) ==
  LET num_conf_bits == count_verilog_connection_box_conf_bits(info, cb)
      num_reserved_conf_bits == count_verilog_connection_box_reserved_conf_bits(info, cb)
      cur_num_sram == get_sram_orgz_info_num_mem_bit(info)
      esti_sram_cnt == cur_num_sram + num_conf_bits
  IN Emitted(info, EmitSides(info, dump_verilog_connection_box_interc, cb, 1), esti_sram_cnt,
             num_conf_bits, num_reserved_conf_bits, cur_num_sram + num_conf_bits - 1)

\* Flat emitters: msb is recorded one past the last bit; a mirror under the
\* compact flag only moves the counter.
dump_verilog_routing_switch_box_subckt(info, sb, compact_routing_hierarchy, has_mirror) ==
  LET num_conf_bits == count_verilog_switch_box_conf_bits_flat(info, sb)
      num_reserved_conf_bits == count_verilog_switch_box_reserved_conf_bits_flat(info, sb)
      cur_num_sram == get_sram_orgz_info_num_mem_bit(info)
      esti_sram_cnt == cur_num_sram + num_conf_bits
      conf_bits_msb == cur_num_sram + num_conf_bits
  IN IF compact_routing_hierarchy /\ has_mirror
     THEN [info |-> update_sram_orgz_info_num_mem_bit(info, conf_bits_msb),
           bits |-> num_conf_bits, reserved |-> num_reserved_conf_bits,
           lsb |-> cur_num_sram, msb |-> conf_bits_msb]
     ELSE Emitted(info, EmitSides(info, SBFlatInterc, sb, 1), esti_sram_cnt,
                  num_conf_bits, num_reserved_conf_bits, conf_bits_msb)

dump_verilog_routing_connection_box_subckt(info, cb, compact_routing_hierarchy, has_mirror) ==
  LET num_conf_bits == count_verilog_connection_box_conf_bits(info, cb)
      num_reserved_conf_bits == count_verilog_connection_box_reserved_conf_bits(info, cb)
      cur_num_sram == get_sram_orgz_info_num_mem_bit(info)
      esti_sram_cnt == cur_num_sram + num_conf_bits
      conf_bits_msb == cur_num_sram + num_conf_bits
  IN IF compact_routing_hierarchy /\ has_mirror
     THEN [info |-> update_sram_orgz_info_num_mem_bit(info, conf_bits_msb),
           bits |-> num_conf_bits, reserved |-> num_reserved_conf_bits,
           lsb |-> cur_num_sram, msb |-> conf_bits_msb]
     ELSE Emitted(info, EmitSides(info, dump_verilog_connection_box_interc, cb, 1),
                  esti_sram_cnt, num_conf_bits, num_reserved_conf_bits, conf_bits_msb)

(***************************************************************************)
(* Allocation without emission (the replay of the compact flow)            *)
(***************************************************************************)
\* Mutation: the reserved count taken for the bit count.
update_routing_switch_box_conf_bits_reserved(info, sb) ==
  LET num_conf_bits == count_verilog_switch_box_reserved_conf_bits(info, sb)
      cur_num_sram == get_sram_orgz_info_num_mem_bit(info)
  IN [info |-> update_sram_orgz_info_num_blwl(
                 update_sram_orgz_info_num_mem_bit(info, cur_num_sram + num_conf_bits),
                 info.num_bl + num_conf_bits, info.num_wl + num_conf_bits),
      bits |-> num_conf_bits, reserved |-> num_conf_bits,
      lsb |-> cur_num_sram, msb |-> cur_num_sram + num_conf_bits - 1]

\* Mutation: the bit-line and word-line counts are left alone.
update_routing_switch_box_conf_bits_no_blwl(info, sb) ==
  LET num_conf_bits == count_verilog_switch_box_conf_bits(info, sb)
      num_reserved_conf_bits == count_verilog_switch_box_reserved_conf_bits(info, sb)
      cur_num_sram == get_sram_orgz_info_num_mem_bit(info)
  IN [info |-> update_sram_orgz_info_num_mem_bit(info, cur_num_sram + num_conf_bits),
      bits |-> num_conf_bits, reserved |-> num_reserved_conf_bits,
      lsb |-> cur_num_sram, msb |-> cur_num_sram + num_conf_bits - 1]

update_routing_switch_box_conf_bits(info, sb) ==
  LET cur_num_bl == info.num_bl
      cur_num_wl == info.num_wl
      num_conf_bits == count_verilog_switch_box_conf_bits(info, sb)
      num_reserved_conf_bits == count_verilog_switch_box_reserved_conf_bits(info, sb)
      cur_num_sram == get_sram_orgz_info_num_mem_bit(info)
  IN [info |-> update_sram_orgz_info_num_blwl(
                 update_sram_orgz_info_num_mem_bit(info, cur_num_sram + num_conf_bits),
                 cur_num_bl + num_conf_bits, cur_num_wl + num_conf_bits),
      bits |-> num_conf_bits, reserved |-> num_reserved_conf_bits,
      lsb |-> cur_num_sram, msb |-> cur_num_sram + num_conf_bits - 1]

\* Mutation: a box is sized by the selected paths: none without a routed net.
update_routing_connection_box_conf_bits_by_path(info, cb) ==
  LET num_conf_bits == IF RouteOf(cfg) = "unrouted" THEN 0
                       ELSE count_verilog_connection_box_conf_bits(info, cb)
      cur_num_sram == get_sram_orgz_info_num_mem_bit(info)
  IN [info |-> update_sram_orgz_info_num_blwl(
                 update_sram_orgz_info_num_mem_bit(info, cur_num_sram + num_conf_bits),
                 info.num_bl + num_conf_bits, info.num_wl + num_conf_bits),
      bits |-> num_conf_bits,
      reserved |-> count_verilog_connection_box_reserved_conf_bits(info, cb),
      lsb |-> cur_num_sram, msb |-> cur_num_sram + num_conf_bits - 1]

\* Mutation: msb recorded one past the last bit, as the flat emitters do.
update_routing_connection_box_conf_bits_msb_past(info, cb) ==
  LET num_conf_bits == count_verilog_connection_box_conf_bits(info, cb)
      cur_num_sram == get_sram_orgz_info_num_mem_bit(info)
  IN [info |-> update_sram_orgz_info_num_blwl(
                 update_sram_orgz_info_num_mem_bit(info, cur_num_sram + num_conf_bits),
                 info.num_bl + num_conf_bits, info.num_wl + num_conf_bits),
      bits |-> num_conf_bits,
      reserved |-> count_verilog_connection_box_reserved_conf_bits(info, cb),
      lsb |-> cur_num_sram, msb |-> cur_num_sram + num_conf_bits]

update_routing_connection_box_conf_bits(info, cb) ==
  LET cur_num_bl == info.num_bl
      cur_num_wl == info.num_wl
      num_conf_bits == count_verilog_connection_box_conf_bits(info, cb)
      num_reserved_conf_bits == count_verilog_connection_box_reserved_conf_bits(info, cb)
      cur_num_sram == get_sram_orgz_info_num_mem_bit(info)
  IN [info |-> update_sram_orgz_info_num_blwl(
                 update_sram_orgz_info_num_mem_bit(info, cur_num_sram + num_conf_bits),
                 cur_num_bl + num_conf_bits, cur_num_wl + num_conf_bits),
      bits |-> num_conf_bits, reserved |-> num_reserved_conf_bits,
      lsb |-> cur_num_sram, msb |-> cur_num_sram + num_conf_bits - 1]

(***************************************************************************)
(* print_verilog_routing_resources, one action per statement or loop turn  *)
(***************************************************************************)
Techs == { [type |-> "SCAN_CHAIN", design_tech |-> "CMOS"],
           [type |-> "MEMORY_BANK", design_tech |-> "CMOS"],
           [type |-> "MEMORY_BANK", design_tech |-> "RRAM"] }

Ranges == (2 .. MaxRangeX) \X (2 .. MaxRangeY)

Devices ==
  UNION { { [range |-> r, kind |-> k] :
            k \in [(0 .. r[1] - 1) \X (0 .. r[2] - 1) -> TileKinds] } : r \in Ranges }

BlockKeys(d) == {"SB", "CHANX", "CHANY"} \X Tiles(d)

NoConf == [lsb |-> 0, msb |-> 0, reserved |-> 0, writes |-> 0]

set_conf_bits(confs, key, r) ==
  [confs EXCEPT ![key] = [lsb |-> r.lsb, msb |-> r.msb, reserved |-> r.reserved,
                          writes |-> @.writes + 1]]

init_sram_orgz_info(tech) ==
  [type |-> tech.type, design_tech |-> tech.design_tech,
   num_mem_bit |-> 0, num_bl |-> 0, num_wl |-> 0]

NoRef == [conf |-> << >>, cur |-> NoInfo]

ClockIdle ==
  /\ clk = [idle |-> TRUE]
  /\ clk_pc = "idle"
  /\ clk_idx = 0
  /\ rr_nodes = << >>
  /\ rr_edges = << >>
  /\ clk_lookup = << >>
  /\ clk_est = 0
  /\ clk_status = "NONE"
  /\ clk_adds = 0

InitRouting ==
  /\ cfg \in [compact : BOOLEAN, tech : Techs, dev : Devices]
  /\ pc = IF cfg.compact THEN "sb_snapshot" ELSE "sb_flat"
  /\ idx = 0
  /\ cur = init_sram_orgz_info(cfg.tech)
  /\ stamped = NoInfo
  /\ gsb_conf = [k \in BlockKeys(cfg.dev) |-> NoConf]
  /\ info_conf = [k \in BlockKeys(cfg.dev) |-> NoConf]
  /\ entry_cnt = NoInfo
  /\ uniq_log = << >>
  /\ inst_log = << >>
  /\ ref = NoRef
  /\ ClockIdle

Log(t, tile, r, mode) ==
  [t |-> t, tile |-> tile, bits |-> r.bits, lsb |-> r.lsb, msb |-> r.msb, mode |-> mode]

\* Advance a loop of `n` turns, leaving for `next` after the last one.
Step(n, next) ==
  IF idx + 1 < n THEN pc' = pc /\ idx' = idx + 1
                 ELSE pc' = next /\ idx' = 0

Abort ==
  /\ pc' = "abort"
  /\ UNCHANGED <<cfg, idx, cur, stamped, gsb_conf, info_conf, entry_cnt, uniq_log, inst_log, ref>>

SnapshotSB ==
  /\ pc = "sb_snapshot"
  /\ stamped' = snapshot_sram_orgz_info(cur)
  /\ entry_cnt' = cur
  /\ pc' = "sb_unique"
  /\ UNCHANGED <<cfg, idx, cur, gsb_conf, info_conf, uniq_log, inst_log, ref, cvars>>

\* Mutation: a netlist for the switch block of every tile.
EmitUniqueSB_every_tile ==
  /\ pc = "sb_unique"
  /\ LET uniq == [p \in 1 .. NumTiles(cfg.dev) |-> ScanTile(cfg.dev, p - 1)]
         tile == uniq[idx + 1]
         sb == get_sb(cfg.dev, tile)
         r == dump_verilog_routing_switch_box_unique_subckt(cur, sb)
         q == print_verilog_routing_switch_box_unique_module(r.info, sb)
     IN IF r.info = Aborted THEN Abort
        ELSE /\ cur' = q.info
             /\ uniq_log' = Append(uniq_log,
                  [t |-> "SB", tile |-> tile, bits |-> r.bits, lsb |-> r.lsb, msb |-> r.msb,
                   print_bits |-> q.bits, print_lsb |-> q.lsb, print_msb |-> q.msb,
                   interc |-> [i \in 1 .. Len(sb_out_nodes(sb)) |->
                     dump_verilog_unique_switch_box_interc_netlist(sb_out_nodes(sb)[i])],
                   print_interc |-> [i \in 1 .. Len(sb_out_nodes(sb)) |->
                     print_verilog_unique_switch_box_interc_netlist(sb_out_nodes(sb)[i])],
                   path_ids |-> path_annotation(RouteOf(cfg),
                     [i \in 1 .. Len(sb_out_nodes(sb)) |->
                        IF sb_out_nodes(sb)[i].passing THEN 0
                        ELSE sb_out_nodes(sb)[i].num_drive_rr_nodes])])
             /\ Step(Len(uniq), "sb_restore")
             /\ UNCHANGED <<cfg, stamped, gsb_conf, info_conf, entry_cnt, inst_log, ref>>
  /\ UNCHANGED cvars

\* One unique switch block: the legacy netlist, then the module-manager one.
EmitUniqueSB ==
  /\ pc = "sb_unique"
  /\ LET uniq == get_sb_unique_module(cfg.dev)
         tile == uniq[idx + 1]
         sb == get_sb(cfg.dev, tile)
         r == dump_verilog_routing_switch_box_unique_subckt(cur, sb)
         q == print_verilog_routing_switch_box_unique_module(r.info, sb)
     IN IF r.info = Aborted THEN Abort
        ELSE /\ cur' = q.info
             /\ uniq_log' = Append(uniq_log,
                  [t |-> "SB", tile |-> tile, bits |-> r.bits, lsb |-> r.lsb, msb |-> r.msb,
                   print_bits |-> q.bits, print_lsb |-> q.lsb, print_msb |-> q.msb,
                   interc |-> [i \in 1 .. Len(sb_out_nodes(sb)) |->
                     dump_verilog_unique_switch_box_interc_netlist(sb_out_nodes(sb)[i])],
                   print_interc |-> [i \in 1 .. Len(sb_out_nodes(sb)) |->
                     print_verilog_unique_switch_box_interc_netlist(sb_out_nodes(sb)[i])],
                   path_ids |-> path_annotation(RouteOf(cfg),
                     [i \in 1 .. Len(sb_out_nodes(sb)) |->
                        IF sb_out_nodes(sb)[i].passing THEN 0
                        ELSE sb_out_nodes(sb)[i].num_drive_rr_nodes])])
             /\ Step(Len(uniq), "sb_restore")
             /\ UNCHANGED <<cfg, stamped, gsb_conf, info_conf, entry_cnt, inst_log, ref>>
  /\ UNCHANGED cvars

RestoreSB ==
  /\ pc = "sb_restore"
  /\ cur' = copy_sram_orgz_info(cur, stamped)
  /\ pc' = "sb_replay"
  /\ UNCHANGED <<cfg, idx, stamped, gsb_conf, info_conf, entry_cnt, uniq_log, inst_log, ref, cvars>>

\* Mutation: only the tiles that gave a unique module are allocated.
UpdateSB_unique_only ==
  /\ pc = "sb_replay"
  /\ LET tile == ScanTile(cfg.dev, idx)
         r == update_routing_switch_box_conf_bits(cur, get_sb(cfg.dev, tile))
     IN IF \E i \in 1 .. Len(get_sb_unique_module(cfg.dev)) :
             get_sb_unique_module(cfg.dev)[i] = tile
        THEN /\ cur' = r.info
             /\ gsb_conf' = set_conf_bits(gsb_conf, <<"SB", tile>>, r)
             /\ inst_log' = Append(inst_log, Log("SB", tile, r, "replay"))
        ELSE UNCHANGED <<cur, gsb_conf, inst_log>>
  /\ Step(NumTiles(cfg.dev), "sb_free")
  /\ UNCHANGED <<cfg, stamped, info_conf, entry_cnt, uniq_log, ref, cvars>>

UpdateSB ==
  /\ pc = "sb_replay"
  /\ LET tile == ScanTile(cfg.dev, idx)
         r == update_routing_switch_box_conf_bits(cur, get_sb(cfg.dev, tile))
     IN /\ cur' = r.info
        /\ gsb_conf' = set_conf_bits(gsb_conf, <<"SB", tile>>, r)
        /\ inst_log' = Append(inst_log, Log("SB", tile, r, "replay"))
  /\ Step(NumTiles(cfg.dev), "sb_free")
  /\ UNCHANGED <<cfg, stamped, info_conf, entry_cnt, uniq_log, ref, cvars>>

FreeSB ==
  /\ pc = "sb_free"
  /\ stamped' = NoInfo
  /\ pc' = "cb_snapshot"
  /\ UNCHANGED <<cfg, idx, cur, gsb_conf, info_conf, entry_cnt, uniq_log, inst_log, ref, cvars>>

\* Flat scan: for ix in 0..nx, for iy in 0..ny.
FlatSB ==
  /\ pc = "sb_flat"
  /\ LET tile == ScanTile(cfg.dev, idx)
         r == dump_verilog_routing_switch_box_subckt(cur, get_sb(cfg.dev, tile),
                cfg.compact, tile \notin {get_sb_unique_module(cfg.dev)[i] :
                                          i \in 1 .. Len(get_sb_unique_module(cfg.dev))})
     IN IF r.info = Aborted THEN Abort
        ELSE /\ cur' = r.info
             /\ info_conf' = set_conf_bits(info_conf, <<"SB", tile>>, r)
             /\ inst_log' = Append(inst_log,
                  [t |-> "SB", tile |-> tile, bits |-> r.bits, lsb |-> r.lsb, msb |-> r.msb,
                   mode |-> "flat",
                   interc |-> [i \in 1 .. Len(sb_out_nodes(get_sb(cfg.dev, tile))) |->
                     dump_verilog_switch_box_interc_netlist(
                       sb_out_nodes(get_sb(cfg.dev, tile))[i])],
                   path_ids |-> path_annotation(RouteOf(cfg),
                     [i \in 1 .. Len(sb_out_nodes(get_sb(cfg.dev, tile))) |->
                        IF sb_out_nodes(get_sb(cfg.dev, tile))[i].imply_short THEN 0
                        ELSE sb_out_nodes(get_sb(cfg.dev, tile))[i].num_drive_rr_nodes])])
             /\ Step(NumTiles(cfg.dev), "cbx_flat")
             /\ UNCHANGED <<cfg, stamped, gsb_conf, entry_cnt, uniq_log, ref>>
  /\ UNCHANGED cvars

SnapshotCB ==
  /\ pc = "cb_snapshot"
  /\ stamped' = snapshot_sram_orgz_info(cur)
  /\ entry_cnt' = cur
  /\ pc' = "cbx_unique"
  /\ UNCHANGED <<cfg, idx, cur, gsb_conf, info_conf, uniq_log, inst_log, ref, cvars>>

EmitUniqueCB(t, next) ==
  LET uniq == get_cb_unique_module(cfg.dev, t)
      tile == uniq[idx + 1]
      r == dump_verilog_routing_connection_box_unique_module(cur, get_cb(cfg.dev, tile, t))
  IN IF r.info = Aborted THEN Abort
     ELSE /\ cur' = r.info
          /\ uniq_log' = Append(uniq_log,
               [t |-> t, tile |-> tile, bits |-> r.bits, lsb |-> r.lsb, msb |-> r.msb,
                print_bits |-> r.bits, print_lsb |-> r.lsb, print_msb |-> r.msb,
                pins |-> CBPins(cur, get_cb(cfg.dev, tile, t))])
          /\ Step(Len(uniq), next)
          /\ UNCHANGED <<cfg, stamped, gsb_conf, info_conf, entry_cnt, inst_log, ref>>

EmitUniqueCBX ==
  /\ pc = "cbx_unique"
  /\ EmitUniqueCB("CHANX", "cby_unique")
  /\ UNCHANGED cvars

EmitUniqueCBY ==
  /\ pc = "cby_unique"
  /\ EmitUniqueCB("CHANY", "cb_restore")
  /\ UNCHANGED cvars

\* Mutation: the restore left out.
RestoreCB_left_out ==
  /\ pc = "cb_restore"
  /\ pc' = "cb_replay"
  /\ UNCHANGED <<cfg, idx, cur, stamped, gsb_conf, info_conf, entry_cnt, uniq_log, inst_log,
                 ref, cvars>>

RestoreCB ==
  /\ pc = "cb_restore"
  /\ cur' = copy_sram_orgz_info(cur, stamped)
  /\ pc' = "cb_replay"
  /\ UNCHANGED <<cfg, idx, stamped, gsb_conf, info_conf, entry_cnt, uniq_log, inst_log, ref, cvars>>

\* Mutation: the second call names CHANX again.
UpdateCB_chanx_twice ==
  /\ pc = "cb_replay"
  /\ LET tile == ScanTile(cfg.dev, idx)
         rx == update_routing_connection_box_conf_bits(cur, get_cb(cfg.dev, tile, "CHANX"))
         ry == update_routing_connection_box_conf_bits(rx.info, get_cb(cfg.dev, tile, "CHANX"))
     IN /\ cur' = ry.info
        /\ gsb_conf' = set_conf_bits(set_conf_bits(gsb_conf, <<"CHANX", tile>>, rx),
                                     <<"CHANX", tile>>, ry)
        /\ inst_log' = inst_log \o << Log("CHANX", tile, rx, "replay"),
                                      Log("CHANX", tile, ry, "replay") >>
  /\ Step(NumTiles(cfg.dev), "cb_free")
  /\ UNCHANGED <<cfg, stamped, info_conf, entry_cnt, uniq_log, ref, cvars>>

\* One tile of the replay: its X connection box, then its Y connection box.
UpdateCB ==
  /\ pc = "cb_replay"
  /\ LET tile == ScanTile(cfg.dev, idx)
         rx == update_routing_connection_box_conf_bits(cur, get_cb(cfg.dev, tile, "CHANX"))
         ry == update_routing_connection_box_conf_bits(rx.info, get_cb(cfg.dev, tile, "CHANY"))
     IN /\ cur' = ry.info
        /\ gsb_conf' = set_conf_bits(set_conf_bits(gsb_conf, <<"CHANX", tile>>, rx),
                                     <<"CHANY", tile>>, ry)
        /\ inst_log' = inst_log \o << Log("CHANX", tile, rx, "replay"),
                                      Log("CHANY", tile, ry, "replay") >>
  /\ Step(NumTiles(cfg.dev), "cb_free")
  /\ UNCHANGED <<cfg, stamped, info_conf, entry_cnt, uniq_log, ref, cvars>>

FreeCB ==
  /\ pc = "cb_free"
  /\ stamped' = NoInfo
  /\ pc' = "done"
  /\ UNCHANGED <<cfg, idx, cur, gsb_conf, info_conf, entry_cnt, uniq_log, inst_log, ref, cvars>>

\* One position of a flat connection-box scan; a position whose box does not
\* exist or has no input pin is passed over.
FlatCB(t, tile, n, next) ==
  LET cb == get_cb(cfg.dev, tile, t)
      r == dump_verilog_routing_connection_box_subckt(cur, cb, cfg.compact,
             tile \notin {get_cb_unique_module(cfg.dev, t)[i] :
                          i \in 1 .. Len(get_cb_unique_module(cfg.dev, t))})
  IN IF is_cb_exist(cb) /\ 0 < count_cb_info_num_ipin_rr_nodes(cb)
     THEN IF r.info = Aborted THEN Abort
          ELSE /\ cur' = r.info
               /\ info_conf' = set_conf_bits(info_conf, <<t, tile>>, r)
               /\ inst_log' = Append(inst_log,
                    [t |-> t, tile |-> tile, bits |-> r.bits, lsb |-> r.lsb, msb |-> r.msb,
                     mode |-> "flat", pins |-> CBPins(cur, cb)])
               /\ Step(n, next)
               /\ UNCHANGED <<cfg, stamped, gsb_conf, entry_cnt, uniq_log, ref>>
     ELSE /\ Step(n, next)
          /\ UNCHANGED <<cfg, cur, stamped, gsb_conf, info_conf, entry_cnt, uniq_log,
                         inst_log, ref>>

\* for iy in 0..ny, for ix in 1..nx
FlatCBX ==
  /\ pc = "cbx_flat"
  /\ LET nx == RangeX(cfg.dev) - 1
     IN FlatCB("CHANX", << 1 + (idx % nx), idx \div nx >>, nx * RangeY(cfg.dev), "cby_flat")
  /\ UNCHANGED cvars

\* for ix in 0..nx, for iy in 1..ny
FlatCBY ==
  /\ pc = "cby_flat"
  /\ LET ny == RangeY(cfg.dev) - 1
     IN FlatCB("CHANY", << idx \div ny, 1 + (idx % ny) >>, RangeX(cfg.dev) * ny, "done")
  /\ UNCHANGED cvars

NextRouting ==
  \/ SnapshotSB \/ EmitUniqueSB \/ RestoreSB \/ UpdateSB \/ FreeSB \/ FlatSB
  \/ SnapshotCB \/ EmitUniqueCBX \/ EmitUniqueCBY \/ RestoreCB \/ UpdateCB \/ FreeCB
  \/ FlatCBX \/ FlatCBY

SpecRouting == InitRouting /\ [][NextRouting]_vars

(***************************************************************************)
(* The same device generated twice: first deduplicated, then flat.         *)
(***************************************************************************)
InitCompare == InitRouting /\ cfg.compact

RunFlatAfterCompact ==
  /\ pc = "done"
  /\ cfg.compact
  /\ ref = NoRef
  /\ ref' = [conf |-> gsb_conf, cur |-> cur]
  /\ cfg' = [cfg EXCEPT !.compact = FALSE]
  /\ cur' = init_sram_orgz_info(cfg.tech)
  /\ pc' = "sb_flat"
  /\ idx' = 0
  /\ inst_log' = << >>
  /\ UNCHANGED <<stamped, gsb_conf, info_conf, entry_cnt, uniq_log, cvars>>

NextCompare == NextRouting \/ RunFlatAfterCompact

SpecCompare == InitCompare /\ [][NextCompare]_vars

(***************************************************************************)
(* The same device generated twice, in the same mode, under two routing    *)
(* solutions: first with no net routed, then with routed sinks.            *)
(***************************************************************************)
InitRerouted ==
  /\ \E c \in [compact : BOOLEAN, tech : Techs, dev : Devices] :
       cfg = [compact |-> c.compact, tech |-> c.tech, dev |-> c.dev, route |-> "unrouted"]
  /\ pc = IF cfg.compact THEN "sb_snapshot" ELSE "sb_flat"
  /\ idx = 0
  /\ cur = init_sram_orgz_info(cfg.tech)
  /\ stamped = NoInfo
  /\ gsb_conf = [k \in BlockKeys(cfg.dev) |-> NoConf]
  /\ info_conf = [k \in BlockKeys(cfg.dev) |-> NoConf]
  /\ entry_cnt = NoInfo
  /\ uniq_log = << >>
  /\ inst_log = << >>
  /\ ref = NoRef
  /\ ClockIdle

RunRerouted ==
  /\ pc = "done"
  /\ ref = NoRef
  /\ \E r \in Routes \ { cfg.route } : cfg' = [cfg EXCEPT !.route = r]
  /\ ref' = [conf |-> IF cfg.compact THEN gsb_conf ELSE info_conf, cur |-> cur,
             notes |-> << uniq_log, inst_log >>]
  /\ cur' = init_sram_orgz_info(cfg.tech)
  /\ pc' = IF cfg.compact THEN "sb_snapshot" ELSE "sb_flat"
  /\ idx' = 0
  /\ stamped' = NoInfo
  /\ entry_cnt' = NoInfo
  /\ gsb_conf' = [k \in BlockKeys(cfg.dev) |-> NoConf]
  /\ info_conf' = [k \in BlockKeys(cfg.dev) |-> NoConf]
  /\ uniq_log' = << >>
  /\ inst_log' = << >>
  /\ UNCHANGED cvars

NextRerouted == NextRouting \/ RunRerouted

SpecRerouted == InitRerouted /\ [][NextRerouted]_vars

(***************************************************************************)
(* One multiplexer emitter call (dump_verilog_unique_switch_box_mux and    *)
(* its three siblings): path selection, decoding, counter update.          *)
(***************************************************************************)
\* Mutation: the loop goes on after a match.
RECURSIVE PathIdFrom_no_break(_, _, _, _, _)
PathIdFrom_no_break(drive_rr_nodes, prev, inode, path_id, id_path) ==
  IF inode >= Len(drive_rr_nodes) THEN [path_id |-> path_id, id_path |-> id_path]
  ELSE IF drive_rr_nodes[inode + 1] = prev
       THEN PathIdFrom_no_break(drive_rr_nodes, prev, inode + 1, inode, inode)
  ELSE PathIdFrom_no_break(drive_rr_nodes, prev, inode + 1, path_id, id_path)

\* "Configuration bits for this MUX": the loop over the drivers, from inode
\* on; path_id and the node's id_path are the values so far.
RECURSIVE PathIdFrom(_, _, _, _, _)
PathIdFrom(drive_rr_nodes, prev, inode, path_id, id_path) ==
  IF inode >= Len(drive_rr_nodes) THEN [path_id |-> path_id, id_path |-> id_path]
  ELSE IF drive_rr_nodes[inode + 1] = prev THEN [path_id |-> inode, id_path |-> inode]
  ELSE PathIdFrom(drive_rr_nodes, prev, inode + 1, path_id, id_path)

\* Select bits of a tree of 2-input stages, first stage first.
RECURSIVE TreeSelectBits(_, _)
TreeSelectBits(path_id, mux_level) ==
  IF mux_level = 0 THEN << >>
  ELSE << path_id % 2 >> \o TreeSelectBits(path_id \div 2, mux_level - 1)

\* Mutation: one stage short whenever the fan-in is not a power of two.
decode_cmos_mux_sram_bits_floor_level(mux_size, path_id) ==
  LET mux_level == IF mux_size = 2 THEN 1 ELSE CeilLog2(mux_size + 1) - 1
  IN [num_mux_sram_bits |-> mux_level, mux_level |-> mux_level,
      mux_sram_bits |-> TreeSelectBits(path_id, mux_level)]

decode_cmos_mux_sram_bits(mux_size, path_id) ==
  LET mux_level == CeilLog2(mux_size)
  IN [num_mux_sram_bits |-> mux_level, mux_level |-> mux_level,
      mux_sram_bits |-> TreeSelectBits(path_id, mux_level)]

\* Bit lines then word lines, mux_size + 1 of each: the bit line of the
\* selected input and the last word line are raised.
decode_rram_mux(mux_size, path_id) ==
  [num_mux_sram_bits |-> 2 * (mux_size + 1), mux_level |-> 1,
   mux_sram_bits |-> [i \in 1 .. 2 * (mux_size + 1) |->
                        IF i = path_id + 1 \/ i = 2 * (mux_size + 1) THEN 1 ELSE 0]]

DriverIds == 1 .. 3

\* Node 0 is driven by no multiplexer input.
NodeIds == {0} \cup DriverIds

DriverLists == UNION { [1 .. n -> DriverIds] : n \in 2 .. MaxMuxSize }

MuxInputs ==
  [tech : Techs, drive_rr_nodes : DriverLists, prev_node : NodeIds, id_path : {0, 1}]

InitMux ==
  /\ cfg \in MuxInputs
  /\ pc = "mux"
  /\ idx = 0
  /\ cur = init_sram_orgz_info(cfg.tech)
  /\ stamped = NoInfo
  /\ gsb_conf = << >>
  /\ info_conf = << >>
  /\ entry_cnt = NoInfo
  /\ uniq_log = << >>
  /\ inst_log = << >>
  /\ ref = NoRef
  /\ ClockIdle

\* The whole emitter: idx keeps path_id, cfg.id_path is the node's field, the
\* record logged is what the commented netlist lines print.
MuxEmit ==
  /\ pc = "mux"
  /\ LET mux_size == Len(cfg.drive_rr_nodes)
         sel == PathIdFrom(cfg.drive_rr_nodes, cfg.prev_node, 0, DEFAULT_PATH_ID, cfg.id_path)
         dec == IF cur.design_tech = "CMOS"
                THEN decode_cmos_mux_sram_bits(mux_size, sel.path_id)
                ELSE decode_rram_mux(mux_size, sel.path_id)
     IN /\ idx' = sel.path_id
        /\ cfg' = [cfg EXCEPT !.id_path = sel.id_path]
        /\ uniq_log' = << [t |-> "MUX", mux_size |-> mux_size, select_path_id |-> sel.path_id,
                           level |-> dec.mux_level, mux_sram_bits |-> dec.mux_sram_bits,
                           id_path_before |-> cfg.id_path] >>
        /\ cur' = dump_verilog_unique_switch_box_mux(cur, mux_size)
  /\ pc' = "mux_done"
  /\ UNCHANGED <<stamped, gsb_conf, info_conf, entry_cnt, inst_log, ref, cvars>>

NextMux == MuxEmit

SpecMux == InitMux /\ [][NextMux]_vars

(***************************************************************************)
(* One call of a flat emitter on a mirror, the compact flag on             *)
(* (dump_verilog_routing_switch_box_subckt and                             *)
(* dump_verilog_routing_connection_box_subckt).                            *)
(***************************************************************************)
\* The counter when the call is entered: entry bits allocated so far, by
\* multiplexers that were emitted.
EntryCounter(tech, entry) ==
  [init_sram_orgz_info(tech) EXCEPT
     !.num_mem_bit = entry,
     !.num_bl = IF tech.design_tech = "RRAM" THEN entry ELSE 0,
     !.num_wl = IF tech.design_tech = "RRAM" THEN entry ELSE 0]

InitMirror ==
  /\ cfg \in [tech : Techs, kind : TileKinds, t : {"SB"} \cup ChanTypes, entry : 0 .. MaxEntry]
  /\ pc = "mirror"
  /\ idx = 0
  /\ cur = EntryCounter(cfg.tech, cfg.entry)
  /\ stamped = NoInfo
  /\ gsb_conf = << >>
  /\ info_conf = << >>
  /\ entry_cnt = NoInfo
  /\ uniq_log = << >>
  /\ inst_log = << >>
  /\ ref = NoRef
  /\ ClockIdle

\* ref keeps what the same call leaves when the block is no mirror and its
\* netlist is written.
MirrorSB ==
  /\ pc = "mirror"
  /\ cfg.t = "SB"
  /\ LET r == dump_verilog_routing_switch_box_subckt(cur, SBShape(cfg.kind), TRUE, TRUE)
         e == dump_verilog_routing_switch_box_subckt(cur, SBShape(cfg.kind), TRUE, FALSE)
     IN /\ cur' = r.info
        /\ inst_log' = << [t |-> "SB", bits |-> r.bits, lsb |-> r.lsb, msb |-> r.msb,
                           mode |-> "mirror"] >>
        /\ ref' = [conf |-> << >>, cur |-> e.info]
        /\ entry_cnt' = cur
  /\ pc' = "mirror_done"
  /\ UNCHANGED <<cfg, idx, stamped, gsb_conf, info_conf, uniq_log, cvars>>

MirrorCB ==
  /\ pc = "mirror"
  /\ cfg.t \in ChanTypes
  /\ LET r == dump_verilog_routing_connection_box_subckt(cur, CBShape(cfg.kind, cfg.t), TRUE, TRUE)
         e == dump_verilog_routing_connection_box_subckt(cur, CBShape(cfg.kind, cfg.t), TRUE, FALSE)
     IN /\ cur' = r.info
        /\ inst_log' = << [t |-> cfg.t, bits |-> r.bits, lsb |-> r.lsb, msb |-> r.msb,
                           mode |-> "mirror"] >>
        /\ ref' = [conf |-> << >>, cur |-> e.info]
        /\ entry_cnt' = cur
  /\ pc' = "mirror_done"
  /\ UNCHANGED <<cfg, idx, stamped, gsb_conf, info_conf, uniq_log, cvars>>

NextMirror == MirrorSB \/ MirrorCB

SpecMirror == InitMirror /\ [][NextMirror]_vars

(***************************************************************************)
(* Properties of the deduplicated pass                                     *)
(***************************************************************************)
BitRange(c) == c.lsb .. c.msb

DedupDone == pc = "done" /\ cfg.compact /\ ref = NoRef

\* C1: after the deduplicated pass the recorded [lsb, msb] ranges of all
\* block instances (the switch block and the X and Y connection box of every
\* tile) are pairwise disjoint and their union is the prefix 0 .. total - 1
\* of the address space.
C1_DedupRangesPartitionPrefix ==
  DedupDone =>
    /\ \A k1, k2 \in BlockKeys(cfg.dev) :
         k1 # k2 => BitRange(gsb_conf[k1]) \cap BitRange(gsb_conf[k2]) = {}
    /\ UNION { BitRange(gsb_conf[k]) : k \in BlockKeys(cfg.dev) }
         = 0 .. get_sram_orgz_info_num_mem_bit(cur) - 1

C1_Witness ==
  /\ DedupDone
  /\ \E ta, tb \in Tiles(cfg.dev) :
       /\ ta # tb
       /\ BitRange(gsb_conf[<<"SB", ta>>]) # {}
       /\ BitRange(gsb_conf[<<"SB", tb>>]) # {}
       /\ BitRange(gsb_conf[<<"CHANX", tb>>]) # {}
       /\ BitRange(gsb_conf[<<"CHANY", ta>>]) = {}

SameShapeReplayed(i, j) ==
  /\ i < j
  /\ inst_log[i].mode = "replay" /\ inst_log[j].mode = "replay"
  /\ inst_log[i].t = "SB" /\ inst_log[j].t = "SB"
  /\ inst_log[i].tile # inst_log[j].tile
  /\ get_sb(cfg.dev, inst_log[i].tile) = get_sb(cfg.dev, inst_log[j].tile)

FollowsNeighbour(m) ==
  (1 < m /\ m <= Len(inst_log)) => inst_log[m].lsb = inst_log[m - 1].msb + 1

\* C3: two structurally identical switch blocks at different coordinates get,
\* at replay, the bit count computed for their shared unique shape at
\* unique-module emission; their ranges are disjoint and each block's range
\* starts right after the range of the block before it in scan order.
C3_ReplayCountEqualsUniqueCount ==
  \A i, j \in 1 .. Len(inst_log) :
    SameShapeReplayed(i, j) =>
      /\ \E u \in 1 .. Len(uniq_log) :
           /\ uniq_log[u].t = "SB"
           /\ get_sb(cfg.dev, uniq_log[u].tile) = get_sb(cfg.dev, inst_log[i].tile)
           /\ uniq_log[u].bits = inst_log[i].bits
           /\ uniq_log[u].bits = inst_log[j].bits
      /\ BitRange(inst_log[i]) \cap BitRange(inst_log[j]) = {}
      /\ FollowsNeighbour(i) /\ FollowsNeighbour(i + 1)
      /\ FollowsNeighbour(j) /\ FollowsNeighbour(j + 1)

C3_Witness ==
  /\ DedupDone
  /\ \E i, j \in 1 .. Len(inst_log) :
       /\ SameShapeReplayed(i, j)
       /\ inst_log[i].bits > 0
       /\ j > i + 1

BothDone == pc = "done" /\ ref # NoRef

\* The flat structures keep msb one past the last bit: the ports of a flat
\* netlist are wired lsb .. msb - 1.
FlatLastBit(c) == c.msb - 1

\* C2: every switch block and connection box gets from the deduplicated
\* pass the same [lsb, msb] range as from the flat scan of the same device,
\* and both passes leave the counter (total, bit-lines, word-lines) equal.
C2_DedupEqualsFlat ==
  BothDone =>
    /\ \A k \in BlockKeys(cfg.dev) :
         info_conf[k].writes > 0 =>
           /\ ref.conf[k].lsb = info_conf[k].lsb
           /\ ref.conf[k].msb = FlatLastBit(info_conf[k])
    /\ ref.cur.num_mem_bit = cur.num_mem_bit
    /\ ref.cur.num_bl = cur.num_bl
    /\ ref.cur.num_wl = cur.num_wl

\* Both passes ran on a device with at least one block of a positive size.
C2_Witness ==
  /\ BothDone
  /\ \E k \in BlockKeys(cfg.dev) : info_conf[k].writes > 0 /\ inst_log # << >>
  /\ cur.num_mem_bit > 0

(***************************************************************************)
(* Properties of the allocation step                                       *)
(***************************************************************************)
\* The step entered with counter `c` wrote [c.num_mem_bit, c.num_mem_bit + n - 1]
\* on block `key` and left the counter `after`.
AllocatedBy(c, n, key, after) ==
  /\ gsb_conf'[key].lsb = c.num_mem_bit
  /\ gsb_conf'[key].msb = c.num_mem_bit + n - 1
  /\ after.num_mem_bit = c.num_mem_bit + n
  /\ c.design_tech = "RRAM" =>
       /\ after.num_bl = c.num_bl + n
       /\ after.num_wl = c.num_wl + n

ReplaySBStep ==
  LET tile == ScanTile(cfg.dev, idx)
      n == count_verilog_switch_box_conf_bits(cur, get_sb(cfg.dev, tile))
  IN AllocatedBy(cur, n, << "SB", tile >>, cur')

\* The X box of the tile is allocated first, the Y box from where X ended.
ReplayCBStep ==
  LET tile == ScanTile(cfg.dev, idx)
      nx == count_verilog_connection_box_conf_bits(cur, get_cb(cfg.dev, tile, "CHANX"))
      ny == count_verilog_connection_box_conf_bits(cur, get_cb(cfg.dev, tile, "CHANY"))
      mid == [cur EXCEPT !.num_mem_bit = @ + nx, !.num_bl = cur'.num_bl - ny,
                         !.num_wl = cur'.num_wl - ny]
  IN /\ AllocatedBy(cur, nx, << "CHANX", tile >>, mid)
     /\ AllocatedBy(mid, ny, << "CHANY", tile >>, cur')

\* C14: an allocation step entered with the counter at c for a block of n
\* bits records the range [c, c + n - 1] on the block, advances the total by
\* exactly n and, for resistive-memory technology, the bit-line and the
\* word-line counts by exactly n each.
C14_AllocationStep ==
  [][/\ pc = "sb_replay" => ReplaySBStep
     /\ pc = "cb_replay" => ReplayCBStep]_vars

C14_Witness ==
  /\ pc = "cb_free"
  /\ cur.design_tech = "RRAM"
  /\ \E t \in Tiles(cfg.dev) :
       /\ gsb_conf[<< "CHANX", t >>].lsb > 0
       /\ gsb_conf[<< "CHANX", t >>].msb > gsb_conf[<< "CHANX", t >>].lsb
       /\ gsb_conf[<< "CHANY", t >>].msb > gsb_conf[<< "CHANY", t >>].lsb
       /\ gsb_conf[<< "SB", t >>].lsb > 0
       /\ gsb_conf[<< "SB", t >>].msb > gsb_conf[<< "SB", t >>].lsb
  /\ cur.num_bl > 0 /\ cur.num_wl > 0

(***************************************************************************)
(* Properties of the bit counts                                            *)
(***************************************************************************)
RECURSIVE IpinNodesFrom(_, _)
IpinNodesFrom(cb, s) == IF s = 0 THEN << >> ELSE IpinNodesFrom(cb, s - 1) \o cb[s]

\* The sink nodes of a block: the output-direction channel nodes of a
\* switch block, the input-pin nodes of a connection box.
SinkNodes(t, tile) ==
  IF t = "SB" THEN sb_out_nodes(get_sb(cfg.dev, tile))
  ELSE IpinNodesFrom(get_cb(cfg.dev, tile, t), Len(get_cb(cfg.dev, tile, t)))

SinkDrivers(t, node) ==
  IF t = "SB" /\ node.opposite THEN 0 ELSE node.num_drive_rr_nodes

\* 0 for a self-loop or a short, the multiplexer bit cost otherwise.
SinkBits(t, node) ==
  IF SinkDrivers(t, node) < 2 THEN 0
  ELSE count_num_conf_bits_one_spice_model(cur, SinkDrivers(t, node))

SinkReserved(t, node) ==
  IF SinkDrivers(t, node) < 2 THEN 0
  ELSE count_num_reserved_conf_bits_one_spice_model(cur, SinkDrivers(t, node))

SumOfSinkBits(t, tile) ==
  SumFn([i \in 1 .. Len(SinkNodes(t, tile)) |-> SinkBits(t, SinkNodes(t, tile)[i])],
        Len(SinkNodes(t, tile)))

MaxOfSinkReserved(t, tile) ==
  MaxFn([i \in 1 .. Len(SinkNodes(t, tile)) |-> SinkReserved(t, SinkNodes(t, tile)[i])],
        Len(SinkNodes(t, tile)))

\* C15: the bits counted for a block are the sum, over its output-direction
\* channel nodes (switch block) or its input-pin nodes (connection box), of 0
\* for a short or self-loop and of the multiplexer bit cost otherwise; the
\* reserved count is the maximum over these nodes, not the sum; the
\* input-direction channel nodes contribute nothing.
C15_BitsAreSumReservedIsMax ==
  /\ \A u \in 1 .. Len(uniq_log) :
       /\ uniq_log[u].bits = SumOfSinkBits(uniq_log[u].t, uniq_log[u].tile)
       /\ uniq_log[u].print_bits = SumOfSinkBits(uniq_log[u].t, uniq_log[u].tile)
  /\ \A m \in 1 .. Len(inst_log) :
       LET e == inst_log[m]
           conf == IF e.mode = "replay" THEN gsb_conf[<< e.t, e.tile >>]
                   ELSE info_conf[<< e.t, e.tile >>]
       IN /\ e.bits = SumOfSinkBits(e.t, e.tile)
          /\ conf.reserved = MaxOfSinkReserved(e.t, e.tile)

\* A switch block with two multiplexers (reserved bits 3, not 3 + 2), a
\* driven track entering it and a connection box were counted.
C15_Witness ==
  /\ pc = "done"
  /\ \E m, k \in 1 .. Len(inst_log) :
       /\ inst_log[m].t = "SB" /\ inst_log[k].t # "SB"
       /\ inst_log[m].bits > 0 /\ inst_log[k].bits > 0
       /\ gsb_conf[<< "SB", inst_log[m].tile >>].reserved = 3
       /\ Len(SinkNodes("SB", inst_log[m].tile)) > 2
       /\ \E s \in 1 .. Len(get_sb(cfg.dev, inst_log[m].tile)) :
            \E i \in 1 .. Len(get_sb(cfg.dev, inst_log[m].tile)[s]) :
              /\ get_sb(cfg.dev, inst_log[m].tile)[s][i].dir = "IN"
              /\ get_sb(cfg.dev, inst_log[m].tile)[s][i].num_drive_rr_nodes > 1

(***************************************************************************)
(* Properties of the scan order                                            *)
(***************************************************************************)
\* Switch blocks first, then horizontal, then vertical connection boxes.
BlockRank(t) == IF t = "SB" THEN 0 ELSE IF t = "CHANX" THEN 1 ELSE 2

\* Position of a tile in the scan "for ix ... for iy ..." of the switch blocks.
TilePos(tile) == tile[1] * RangeY(cfg.dev) + tile[2]

\* The log entries that advanced the counter.
Advancing == { m \in 1 .. Len(inst_log) : inst_log[m].bits > 0 }

\* C16: the counter is advanced in one fixed scan order, by the replay of
\* the deduplicated flow and by the flat scan alike: every switch block
\* before any connection box, every horizontal connection box before any
\* vertical one, and the tiles of one block type in the order of the tile scan.
C16_OneScanOrder ==
  \A i, j \in Advancing :
    i < j =>
      /\ BlockRank(inst_log[i].t) <= BlockRank(inst_log[j].t)
      /\ inst_log[i].t = inst_log[j].t => TilePos(inst_log[i].tile) < TilePos(inst_log[j].tile)

\* The replay allocated a vertical connection box ahead of a horizontal one.
C16_Witness ==
  /\ pc = "done" /\ cfg.compact
  /\ \E i, j \in Advancing :
       /\ i < j
       /\ inst_log[i].t = "CHANY" /\ inst_log[j].t = "CHANX"
       /\ inst_log[j].lsb = inst_log[i].msb + 1

(***************************************************************************)
(* Properties of the life of a block instance                              *)
(***************************************************************************)
\* The replay steps that counted block k.
ReplayCounts(k) ==
  { m \in 1 .. Len(inst_log) :
      inst_log[m].mode = "replay" /\ << inst_log[m].t, inst_log[m].tile >> = k }

\* The tiles whose netlist was emitted as the unique module of block type t.
EmittedTiles(t) == { uniq_log[u].tile : u \in { v \in 1 .. Len(uniq_log) : uniq_log[v].t = t } }

WrittenAtMostOnce ==
  \A k \in BlockKeys(cfg.dev) :
    /\ gsb_conf[k].writes <= 1
    /\ info_conf[k].writes <= 1
    /\ gsb_conf[k].writes = Cardinality(ReplayCounts(k))

NeverRewritten ==
  \A k \in BlockKeys(cfg.dev) :
    /\ gsb_conf[k].writes = 1 => gsb_conf'[k] = gsb_conf[k]
    /\ info_conf[k].writes = 1 => info_conf'[k] = info_conf[k]

AllReplayedOnce ==
  DedupDone => \A k \in BlockKeys(cfg.dev) : Cardinality(ReplayCounts(k)) = 1

\* C18: the [lsb, msb] range of a block instance is written exactly once
\* and never rewritten, and in the deduplicated flow every physical instance
\* is replay-counted exactly once, whether or not it is the instance whose
\* netlist was emitted.
C18_AllocatedOnce ==
  /\ [](WrittenAtMostOnce /\ AllReplayedOnce)
  /\ [][NeverRewritten]_vars

\* Two switch blocks of one shape, one of them the emitted unique module,
\* were both replayed and hold distinct ranges.
C18_Witness ==
  /\ DedupDone
  /\ \E ta, tb \in Tiles(cfg.dev) :
       /\ ta \in EmittedTiles("SB") /\ tb \notin EmittedTiles("SB")
       /\ get_sb(cfg.dev, ta) = get_sb(cfg.dev, tb)
       /\ gsb_conf[<< "SB", ta >>].writes = 1 /\ gsb_conf[<< "SB", tb >>].writes = 1
       /\ gsb_conf[<< "SB", ta >>].msb > gsb_conf[<< "SB", ta >>].lsb
       /\ gsb_conf[<< "SB", ta >>].lsb # gsb_conf[<< "SB", tb >>].lsb

(***************************************************************************)
(* Properties of the netlist emission                                      *)
(***************************************************************************)
BlockShape(t, tile) == IF t = "SB" THEN get_sb(cfg.dev, tile) ELSE get_cb(cfg.dev, tile, t)

\* The netlists emitted for blocks of type t shaped like the block at tile.
NetlistsOfShape(t, tile) ==
  { u \in 1 .. Len(uniq_log) :
      uniq_log[u].t = t /\ BlockShape(t, uniq_log[u].tile) = BlockShape(t, tile) }

\* The unique-module loop of block type t has run to its end.
UniqueEmitted(t) ==
  IF t = "SB" THEN pc \notin {"sb_snapshot", "sb_unique"}
  ELSE IF t = "CHANX" THEN pc \in {"cby_unique", "cb_restore", "cb_replay", "cb_free", "done"}
  ELSE pc \in {"cb_restore", "cb_replay", "cb_free", "done"}

BothRoutesDone == pc = "done" /\ ref # NoRef

RECURSIVE SelectedInput(_)
SelectedInput(bits) ==
  IF Len(bits) = 0 THEN 0 ELSE Head(bits) + 2 * SelectedInput(Tail(bits))

MuxDone == pc = "mux_done"

MatchingDrivers ==
  { i \in 0 .. Len(cfg.drive_rr_nodes) - 1 : cfg.drive_rr_nodes[i + 1] = cfg.prev_node }

\* C25: the selected path id is the smallest index whose driver is the
\* sink's predecessor, and that index is stored on the node; when no driver
\* is the predecessor, the default path id is decoded and the node's stored
\* path id keeps its value.
C25_SmallestMatchingDriver ==
  MuxDone =>
    IF MatchingDrivers # {}
    THEN /\ idx \in MatchingDrivers
         /\ \A i \in MatchingDrivers : idx <= i
         /\ cfg.id_path = idx
         /\ uniq_log[1].select_path_id = idx
    ELSE /\ idx = DEFAULT_PATH_ID
         /\ uniq_log[1].select_path_id = DEFAULT_PATH_ID
         /\ cfg.id_path = uniq_log[1].id_path_before

\* The predecessor appears twice in the driver list, not at its head.
C25_Witness ==
  /\ MuxDone
  /\ Cardinality(MatchingDrivers) = 2
  /\ 0 \notin MatchingDrivers
  /\ idx = 1
  /\ cfg.id_path = 1
  /\ uniq_log[1].id_path_before = 0

(***************************************************************************)
(* Input pins of the connection boxes                                      *)
(***************************************************************************)
\* The connection boxes whose netlist was written: unique modules and
\* blocks of the flat scan.
CBEntries ==
  { e \in { uniq_log[u] : u \in 1 .. Len(uniq_log) } \cup
          { inst_log[m] : m \in 1 .. Len(inst_log) } :
      e.t \in ChanTypes /\ "pins" \in DOMAIN e }

CBNodesOf(e) == cb_ipin_nodes(get_cb(cfg.dev, e.tile, e.t))

MuxIffCharged(e, i) ==
  /\ (e.pins[i].interc = << "mux" >>) <=> (e.pins[i].bits > 0)
  /\ (e.pins[i].bits > 0) <=> (CBNodesOf(e)[i].num_drive_rr_nodes >= 2)

EndedInsideFlatSB ==
  /\ ~cfg.compact
  /\ Len(inst_log) < NumTiles(cfg.dev)
  /\ EmitSides(cur, SBFlatInterc, get_sb(cfg.dev, ScanTile(cfg.dev, Len(inst_log))), 1) = Aborted

\* The block whose netlist was written last, and the positions at which the
\* counter is still the one its emitter left.
LastEmitted ==
  IF cfg.compact THEN uniq_log[Len(uniq_log)] ELSE inst_log[Len(inst_log)]

JustEmitted ==
  IF cfg.compact
  THEN /\ uniq_log # << >>
       /\ \/ pc \in {"sb_unique", "sb_restore"} /\ LastEmitted.t = "SB"
          \/ pc \in {"cbx_unique", "cby_unique", "cb_restore"} /\ LastEmitted.t \in ChanTypes
  ELSE /\ inst_log # << >>
       /\ pc \in {"sb_flat", "cbx_flat", "cby_flat", "done"}

FlatRecorded(m) == inst_log[m].mode = "flat"

\* C24: in the non-deduplicated scan every block records the range
\* [counter, counter + bits - 1]: the recorded [lsb, msb] holds exactly the
\* counted number of addresses, and the recorded ranges of two consecutive
\* blocks share no address.
C24_FlatRangeHoldsCountedBits ==
  /\ \A m \in 1 .. Len(inst_log) :
       FlatRecorded(m) => inst_log[m].msb - inst_log[m].lsb + 1 = inst_log[m].bits
  /\ \A m \in 1 .. Len(inst_log) - 1 :
       FlatRecorded(m) /\ FlatRecorded(m + 1) => inst_log[m].msb < inst_log[m + 1].lsb

\* Two consecutive blocks of a flat scan, the first with bits of its own.
C24_Witness ==
  /\ ~cfg.compact
  /\ \E m \in 1 .. Len(inst_log) - 1 :
       /\ FlatRecorded(m) /\ FlatRecorded(m + 1)
       /\ inst_log[m].bits > 0
       /\ inst_log[m].msb = inst_log[m].lsb + inst_log[m].bits
       /\ inst_log[m + 1].lsb = inst_log[m].msb
       /\ info_conf[<<inst_log[m].t, inst_log[m].tile>>].msb = inst_log[m].msb

(***************************************************************************)
(* What a deduplicated phase adds to the counter                           *)
(***************************************************************************)
\* Bits of the blocks of one type over all the tiles of the device.
DeviceBits(t) ==
  SumFn([p \in 1 .. NumTiles(cfg.dev) |-> SumOfSinkBits(t, ScanTile(cfg.dev, p - 1))],
        NumTiles(cfg.dev))

\* Bits of the unique modules written during the scratch pass under way or
\* just ended.
ScratchBits(ts) ==
  SumFn([u \in 1 .. Len(uniq_log) |-> IF uniq_log[u].t \in ts THEN uniq_log[u].bits ELSE 0],
        Len(uniq_log))

\* C27: after the deduplicated switch-block phase the counter is its value
\* before the phase plus the switch-block bits of all the tiles, and after
\* the connection-box phase plus the X and Y connection-box bits of all the
\* tiles, whatever number of unique shapes the scratch pass wrote.
C27_PhaseAddsDeviceSum ==
  cfg.compact =>
    /\ pc = "sb_free" =>
         cur.num_mem_bit = entry_cnt.num_mem_bit + DeviceBits("SB")
    /\ pc = "cb_free" =>
         cur.num_mem_bit = entry_cnt.num_mem_bit + DeviceBits("CHANX") + DeviceBits("CHANY")

\* The connection-box phase ended on a counter that was not zero at its
\* start, the scratch pass having written fewer bits than the device holds.
C27_Witness ==
  /\ cfg.compact
  /\ pc = "cb_free"
  /\ entry_cnt.num_mem_bit > 0
  /\ ScratchBits(ChanTypes) > 0
  /\ ScratchBits(ChanTypes) < DeviceBits("CHANX") + DeviceBits("CHANY")
  /\ ScratchBits({"SB"}) < DeviceBits("SB")

(***************************************************************************)
(* The two emitters of a unique switch block                               *)
(***************************************************************************)
\* C28: for each unique switch-block shape the two emitters run back to
\* back, dump_verilog_routing_switch_box_unique_subckt and
\* print_verilog_routing_switch_box_unique_module, derive the same
\* [lsb, msb]: they read the same counter base.
C28_TwinEmittersSameRange ==
  \A u \in 1 .. Len(uniq_log) :
    uniq_log[u].t = "SB" =>
      /\ uniq_log[u].print_lsb = uniq_log[u].lsb
      /\ uniq_log[u].print_msb = uniq_log[u].msb

\* A unique switch block with multiplexers: the second emitter starts
\* where the first one ended.
C28_Witness ==
  \E u \in 1 .. Len(uniq_log) :
    /\ uniq_log[u].t = "SB"
    /\ uniq_log[u].bits > 0
    /\ uniq_log[u].print_bits = uniq_log[u].bits
    /\ uniq_log[u].print_lsb = uniq_log[u].msb + 1
    /\ uniq_log[u].print_msb = uniq_log[u].msb + uniq_log[u].bits

ResolvedDrivers(node) == IF node.passing THEN 0 ELSE node.num_drive_rr_nodes

InterconnectKinds == { << "self_loop" >>, << "short" >>, << "mux" >> }

\* The constructs logged for the output nodes of the switch block of log
\* entry e: one list per emitter that ran on it.
EmittedFor(e) ==
  IF "print_interc" \in DOMAIN e THEN { e.interc, e.print_interc } ELSE { e.interc }

SBEntries == { uniq_log[u] : u \in { v \in 1 .. Len(uniq_log) : uniq_log[v].t = "SB" } }
               \cup { inst_log[m] : m \in { v \in 1 .. Len(inst_log) :
                                               "interc" \in DOMAIN inst_log[v] } }

Directions == << "INC", "DEC" >>

\* Pins of one level of a tree, per channel type and direction.
LevelPins(xi, xd, yi, yd) ==
  [CHANX |-> [INC |-> xi, DEC |-> xd], CHANY |-> [INC |-> yi, DEC |-> yd]]

LevelProfiles == { LevelPins(1, 1, 0, 0), LevelPins(0, 0, 2, 1), LevelPins(1, 0, 1, 0) }

LevelSeqs == UNION { [1 .. n -> LevelProfiles] : n \in 1 .. MaxLevels }

ClockInputs ==
  [width : 2 .. MaxGrid, height : 2 .. MaxGrid, through_channel : BOOLEAN,
   chan : {"none", "all", "alternating"}, num_trees : 0 .. MaxTrees, levels : LevelSeqs]

\* ClockNetwork accessors: tree and level ids count from 0.
trees(c) == [i \in 1 .. c.num_trees |-> i - 1]

levels(c, itree) == [i \in 1 .. Len(c.levels) |-> i - 1]

pins(c, itree, ilvl, chan_type, node_dir) ==
  [i \in 1 .. c.levels[ilvl + 1][chan_type][node_dir] |-> i - 1]

num_tracks(c, itree, ilvl, chan_type) ==
  Len(pins(c, itree, ilvl, chan_type, "INC")) + Len(pins(c, itree, ilvl, chan_type, "DEC"))

\* The base graph: whether a channel exists at a tile and how wide it is.
is_chan_exist(c, coord, chan_type) ==
  \/ c.chan = "all"
  \/ c.chan = "alternating" /\ (coord[1] + coord[2]) % 2 = (IF chan_type = "CHANX" THEN 0 ELSE 1)

is_chanx_exist(c, coord) == is_chan_exist(c, coord, "CHANX")

is_chany_exist(c, coord) == is_chan_exist(c, coord, "CHANY")

\* find_channel_nodes(x, y, type).size(): the existing tracks are 0 .. size - 1.
find_channel_nodes_size(c, coord, chan_type) ==
  IF is_chan_exist(c, coord, chan_type) THEN 1 + (coord[1] % 2) ELSE 0

\* The nodes of the graph before the extension: one per grid location for its
\* pins plus the channel nodes.
orig_num_nodes(c) ==
  c.width * c.height
  + SumFn([i \in 1 .. c.width * c.height |->
             LET coord == << (i - 1) % c.width, (i - 1) \div c.width >> IN
             find_channel_nodes_size(c, coord, "CHANX")
             + find_channel_nodes_size(c, coord, "CHANY")],
          c.width * c.height)

\* for iy in 0 .. height-2, for ix in 1 .. width-2
NumChanxTiles(c) == (c.height - 1) * (c.width - 2)

ChanxTile(c, p) == << 1 + (p % (c.width - 2)), p \div (c.width - 2) >>

\* for ix in 0 .. width-2, for iy in 1 .. height-2
NumChanyTiles(c) == (c.width - 1) * (c.height - 2)

ChanyTile(c, p) == << p \div (c.height - 2), 1 + (p % (c.height - 2)) >>

(***************************************************************************)
(* Clock graph extension: the functions                                    *)
(***************************************************************************)
estimate_clock_rr_graph_num_chan_nodes(c, chan_type) ==
  SumFn([t \in 1 .. Len(trees(c)) |->
           SumFn([l \in 1 .. Len(levels(c, trees(c)[t])) |->
                    num_tracks(c, trees(c)[t], levels(c, trees(c)[t])[l], chan_type)],
                 Len(levels(c, trees(c)[t])))],
        Len(trees(c)))

estimate_clock_rr_graph_num_nodes(c) ==
  SumFn([p \in 1 .. NumChanxTiles(c) |->
           IF ~c.through_channel /\ ~is_chanx_exist(c, ChanxTile(c, p - 1)) THEN 0
           ELSE estimate_clock_rr_graph_num_chan_nodes(c, "CHANX")],
        NumChanxTiles(c))
  + SumFn([p \in 1 .. NumChanyTiles(c) |->
             IF ~c.through_channel /\ ~is_chany_exist(c, ChanyTile(c, p - 1)) THEN 0
             ELSE estimate_clock_rr_graph_num_chan_nodes(c, "CHANY")],
          NumChanyTiles(c))

RECURSIVE Concat(_, _)
Concat(f, n) == IF n = 0 THEN << >> ELSE Concat(f, n - 1) \o f[n]

\* The (tree, level, direction, pin) tuples of one block in loop order.
BlockPins(c, chan_type) ==
  Concat([t \in 1 .. Len(trees(c)) |->
    Concat([l \in 1 .. Len(levels(c, trees(c)[t])) |->
      Concat([d \in 1 .. Len(Directions) |->
        LET itree == trees(c)[t]
            ilvl == levels(c, itree)[l]
            ps == pins(c, itree, ilvl, chan_type, Directions[d])
        IN [i \in 1 .. Len(ps) |->
              [tree |-> itree, lvl |-> ilvl, dir |-> Directions[d], pin |-> ps[i]]]],
        Len(Directions))],
      Len(levels(c, trees(c)[t])))],
    Len(trees(c)))

LookupKey(coord, bp) == << coord[1], coord[2], bp.tree, bp.lvl, bp.pin, bp.dir >>

\* RRClockSpatialLookup::add_node for a run of nodes: a later registration
\* under a key replaces the earlier one.
RECURSIVE add_node(_, _, _)
add_node(lookup, keys, ids) ==
  IF keys = << >> THEN lookup
  ELSE add_node((Head(keys) :> Head(ids)) @@ lookup, Tail(keys), Tail(ids))

\* Mutation: the node is registered under (y, x).
add_rr_graph_block_clock_nodes_swapped_xy(g, c, chan_coord, chan_type, cost_index_offset) ==
  LET orig_chan_width == find_channel_nodes_size(c, chan_coord, chan_type)
      bps == BlockPins(c, chan_type)
      first == orig_num_nodes(c) + Len(g.nodes)
      new == [i \in 1 .. Len(bps) |->
                [id |-> first + i - 1, x |-> chan_coord[1], y |-> chan_coord[2],
                 type |-> chan_type, ptc |-> orig_chan_width + i - 1,
                 direction |-> bps[i].dir, capacity |-> 1,
                 cost_index |-> cost_index_offset]]
  IN [nodes |-> g.nodes \o new,
      lookup |-> add_node(g.lookup,
                          [i \in 1 .. Len(bps) |->
                             LookupKey(<< chan_coord[2], chan_coord[1] >>, bps[i])],
                          [i \in 1 .. Len(bps) |-> new[i].id]),
      adds |-> g.adds + Len(bps)]

\* Mutation: the track index is not advanced from node to node.
add_rr_graph_block_clock_nodes_same_ptc(g, c, chan_coord, chan_type, cost_index_offset) ==
  LET orig_chan_width == find_channel_nodes_size(c, chan_coord, chan_type)
      bps == BlockPins(c, chan_type)
      first == orig_num_nodes(c) + Len(g.nodes)
      new == [i \in 1 .. Len(bps) |->
                [id |-> first + i - 1, x |-> chan_coord[1], y |-> chan_coord[2],
                 type |-> chan_type, ptc |-> orig_chan_width,
                 direction |-> bps[i].dir, capacity |-> 1,
                 cost_index |-> cost_index_offset]]
  IN [nodes |-> g.nodes \o new,
      lookup |-> add_node(g.lookup, [i \in 1 .. Len(bps) |-> LookupKey(chan_coord, bps[i])],
                          [i \in 1 .. Len(bps) |-> new[i].id]),
      adds |-> g.adds + Len(bps)]

add_rr_graph_block_clock_nodes(g, c, chan_coord, chan_type, cost_index_offset) ==
  LET orig_chan_width == find_channel_nodes_size(c, chan_coord, chan_type)
      bps == BlockPins(c, chan_type)
      first == orig_num_nodes(c) + Len(g.nodes)
      new == [i \in 1 .. Len(bps) |->
                [id |-> first + i - 1, x |-> chan_coord[1], y |-> chan_coord[2],
                 type |-> chan_type, ptc |-> orig_chan_width + i - 1,
                 direction |-> bps[i].dir, capacity |-> 1,
                 cost_index |-> cost_index_offset]]
  IN [nodes |-> g.nodes \o new,
      lookup |-> add_node(g.lookup, [i \in 1 .. Len(bps) |-> LookupKey(chan_coord, bps[i])],
                          [i \in 1 .. Len(bps) |-> new[i].id]),
      adds |-> g.adds + Len(bps)]

find_clock_track2track_node(chan_coord, clk_tree, clk_lvl, clk_pin, direction) == << >>

\* Edges of one block: ok is FALSE when a driver lookup misses.
add_rr_graph_block_clock_edges(edges, lookup, c, chan_coord, chan_type) ==
  LET bps == BlockPins(c, chan_type)
      found(i) == LookupKey(chan_coord, bps[i]) \in DOMAIN lookup
      des(i) == find_clock_track2track_node(chan_coord, bps[i].tree, bps[i].lvl,
                                            bps[i].pin, bps[i].dir)
  IN [ok |-> \A i \in 1 .. Len(bps) : found(i),
      edges |-> edges \o
                Concat([i \in 1 .. Len(bps) |->
                          [j \in 1 .. Len(des(i)) |->
                             [src |-> IF found(i) THEN lookup[LookupKey(chan_coord, bps[i])]
                                      ELSE -1,
                              des |-> des(i)[j], switch |-> "default_switch"]]],
                       Len(bps))]

(***************************************************************************)
(* append_clock_rr_graph, one action per statement or loop turn            *)
(***************************************************************************)
RoutingIdle ==
  /\ cfg = [idle |-> TRUE]
  /\ pc = "idle"
  /\ idx = 0
  /\ cur = NoInfo
  /\ stamped = NoInfo
  /\ gsb_conf = << >>
  /\ info_conf = << >>
  /\ entry_cnt = NoInfo
  /\ uniq_log = << >>
  /\ inst_log = << >>
  /\ ref = NoRef

InitClockAt(start) ==
  /\ clk \in ClockInputs
  /\ clk_pc = start
  /\ clk_idx = 0
  /\ rr_nodes = << >>
  /\ rr_edges = << >>
  /\ clk_lookup = << >>
  /\ clk_est = 0
  /\ clk_status = "NONE"
  /\ clk_adds = 0
  /\ RoutingIdle

InitClock == InitClockAt("entry")

\* Mutation: anything but exactly one tree is rejected.
EntryTest_one_tree_only(c) ==
  IF c.num_trees # 1 THEN "CMD_EXEC_FATAL_ERROR" ELSE "CONTINUE"

\* The two tests at the head of append_clock_rr_graph, in program order.
EntryTest(c) ==
  IF c.num_trees # 0 THEN "CMD_EXEC_SUCCESS"
  ELSE IF c.num_trees > 1 THEN "CMD_EXEC_FATAL_ERROR"
  ELSE "CONTINUE"

ClockEntry ==
  /\ clk_pc = "entry"
  /\ IF EntryTest(clk) = "CONTINUE"
     THEN clk_pc' = "estimate" /\ UNCHANGED clk_status
     ELSE clk_pc' = "done" /\ clk_status' = EntryTest(clk)
  /\ UNCHANGED <<clk, clk_idx, rr_nodes, rr_edges, clk_lookup, clk_est, clk_adds, rvars>>

EstimateAndReserve ==
  /\ clk_pc = "estimate"
  /\ clk_est' = estimate_clock_rr_graph_num_nodes(clk)
  /\ clk_pc' = "chanx_nodes"
  /\ UNCHANGED <<clk, clk_idx, rr_nodes, rr_edges, clk_lookup, clk_status, clk_adds, rvars>>

\* One turn of a tile loop of n turns, or its exit towards `next`.
ClockLoop(n, next, Turn) ==
  IF clk_idx < n
  THEN /\ Turn
       /\ clk_idx' = clk_idx + 1
       /\ clk_pc' = clk_pc
  ELSE /\ clk_idx' = 0
       /\ clk_pc' = next
       /\ UNCHANGED <<rr_nodes, rr_edges, clk_lookup, clk_adds>>

AddBlockNodes(coord, chan_type, bypass, cost_index_offset) ==
  LET g == add_rr_graph_block_clock_nodes(
             [nodes |-> rr_nodes, lookup |-> clk_lookup, adds |-> clk_adds],
             clk, coord, chan_type, cost_index_offset)
  IN IF bypass THEN UNCHANGED <<rr_nodes, rr_edges, clk_lookup, clk_adds>>
     ELSE /\ rr_nodes' = g.nodes
          /\ clk_lookup' = g.lookup
          /\ clk_adds' = g.adds
          /\ UNCHANGED rr_edges

\* Mutation: the horizontal loop starts at ix = 0 where the estimate starts at 1.
AddChanxNodes_from_zero ==
  /\ clk_pc = "chanx_nodes"
  /\ ClockLoop((clk.height - 1) * (clk.width - 1), "chany_nodes",
       LET coord == << clk_idx % (clk.width - 1), clk_idx \div (clk.width - 1) >> IN
       AddBlockNodes(coord, "CHANX",
                     ~clk.through_channel /\ ~is_chanx_exist(clk, coord),
                     "CHANX_COST_INDEX_START"))
  /\ UNCHANGED <<clk, clk_est, clk_status, rvars>>

AddChanxNodes ==
  /\ clk_pc = "chanx_nodes"
  /\ ClockLoop(NumChanxTiles(clk), "chany_nodes",
       LET coord == ChanxTile(clk, clk_idx) IN
       AddBlockNodes(coord, "CHANX",
                     ~clk.through_channel /\ ~is_chanx_exist(clk, coord),
                     "CHANX_COST_INDEX_START"))
  /\ UNCHANGED <<clk, clk_est, clk_status, rvars>>

AddChanyNodes ==
  /\ clk_pc = "chany_nodes"
  /\ ClockLoop(NumChanyTiles(clk), "check_nodes",
       LET coord == ChanyTile(clk, clk_idx) IN
       AddBlockNodes(coord, "CHANY",
                     ~clk.through_channel /\ ~is_chany_exist(clk, coord),
                     "CHANX_COST_INDEX_START + num_rr_segments"))
  /\ UNCHANGED <<clk, clk_est, clk_status, rvars>>

\* VTR_ASSERT(num_clock_nodes + orig_num_nodes == rr_graph.num_nodes())
CheckNodes ==
  /\ clk_pc = "check_nodes"
  /\ clk_pc' = IF clk_est + orig_num_nodes(clk) = orig_num_nodes(clk) + Len(rr_nodes)
               THEN "chanx_edges" ELSE "abort"
  /\ UNCHANGED <<clk, clk_idx, rr_nodes, rr_edges, clk_lookup, clk_est, clk_status,
                 clk_adds, rvars>>

AddBlockEdges(coord, chan_type, bypass) ==
  LET e == add_rr_graph_block_clock_edges(rr_edges, clk_lookup, clk, coord, chan_type)
  IN IF bypass THEN UNCHANGED <<rr_nodes, rr_edges, clk_lookup, clk_adds>>
     ELSE /\ e.ok
          /\ rr_edges' = e.edges
          /\ UNCHANGED <<rr_nodes, clk_lookup, clk_adds>>

AddChanxEdges ==
  /\ clk_pc = "chanx_edges"
  /\ ClockLoop(NumChanxTiles(clk), "chany_edges",
       LET coord == ChanxTile(clk, clk_idx) IN
       AddBlockEdges(coord, "CHANX", ~clk.through_channel /\ ~is_chanx_exist(clk, coord)))
  /\ UNCHANGED <<clk, clk_est, clk_status, rvars>>

AddChanyEdges ==
  /\ clk_pc = "chany_edges"
  /\ ClockLoop(NumChanyTiles(clk), "report",
       LET coord == ChanyTile(clk, clk_idx) IN
       AddBlockEdges(coord, "CHANY", ~clk.through_channel /\ ~is_chany_exist(clk, coord)))
  /\ UNCHANGED <<clk, clk_est, clk_status, rvars>>

ReportAndReturn ==
  /\ clk_pc = "report"
  /\ clk_status' = "CMD_EXEC_SUCCESS"
  /\ clk_pc' = "done"
  /\ UNCHANGED <<clk, clk_idx, rr_nodes, rr_edges, clk_lookup, clk_est, clk_adds, rvars>>

ClockBody ==
  \/ EstimateAndReserve \/ AddChanxNodes \/ AddChanyNodes \/ CheckNodes
  \/ AddChanxEdges \/ AddChanyEdges \/ ReportAndReturn

NextClock == ClockEntry \/ ClockBody

SpecClock == InitClock /\ [][NextClock]_vars

\* The body of append_clock_rr_graph (estimate, nodes, check, edges) applied
\* to any clock network: its entry tests left aside.
InitClockBody == InitClockAt("estimate")

NextClockBody == ClockBody

SpecClockBody == InitClockBody /\ [][NextClockBody]_vars

(***************************************************************************)
(* Properties of the clock graph extension                                 *)
(***************************************************************************)
NothingCreated == rr_nodes = << >> /\ rr_edges = << >> /\ clk_lookup = << >>

\* C5: called with more than one clock tree, append_clock_rr_graph returns
\* the fatal-error status and creates no node, no edge and no lookup entry.
C5_MultiTreeIsFatal ==
  (clk_pc = "done" /\ clk.num_trees > 1) =>
    clk_status = "CMD_EXEC_FATAL_ERROR" /\ NothingCreated

\* C6: called with zero clock trees, append_clock_rr_graph never aborts,
\* creates no node, no edge and no lookup entry, and returns success.
C6_ZeroTreesIsNoOp ==
  clk.num_trees = 0 =>
    /\ clk_pc # "abort"
    /\ NothingCreated
    /\ clk_pc = "done" => clk_status = "CMD_EXEC_SUCCESS"

C6_Witness ==
  /\ clk_pc = "done" /\ clk.num_trees = 0
  /\ clk.width > 2 /\ clk.height > 2 /\ clk.through_channel
  /\ clk_status = "CMD_EXEC_SUCCESS"

EligibleTiles(c, chan_type) ==
  IF chan_type = "CHANX"
  THEN {p \in 0 .. NumChanxTiles(c) - 1 :
          c.through_channel \/ is_chanx_exist(c, ChanxTile(c, p))}
  ELSE {p \in 0 .. NumChanyTiles(c) - 1 :
          c.through_channel \/ is_chany_exist(c, ChanyTile(c, p))}

\* Tracks of the single tree at one tile: pins of both directions, summed
\* over the levels.
TracksPerTile(c, chan_type) ==
  SumFn([l \in 1 .. Len(c.levels) |->
           c.levels[l][chan_type]["INC"] + c.levels[l][chan_type]["DEC"]],
        Len(c.levels))

\* C8: for a 1-tree clock network append_clock_rr_graph adds, per channel
\* type, (eligible tiles) x (tracks per tile over all levels and both
\* directions) nodes.
C8_OneTreeNodeCount ==
  (clk_pc = "done" /\ clk.num_trees = 1) =>
    Len(rr_nodes) =
      Cardinality(EligibleTiles(clk, "CHANX")) * TracksPerTile(clk, "CHANX")
      + Cardinality(EligibleTiles(clk, "CHANY")) * TracksPerTile(clk, "CHANY")

SameChannelBefore(i) ==
  {j \in 1 .. i - 1 : /\ rr_nodes[j].x = rr_nodes[i].x
                      /\ rr_nodes[j].y = rr_nodes[i].y
                      /\ rr_nodes[j].type = rr_nodes[i].type}

\* C9: the clock nodes of one tile and channel type get the track indices
\* W, W+1, ... in creation order, W being the channel width found there
\* (existing tracks are 0 .. W-1): no two nodes of the channel share an index.
C9_ConsecutiveTrackIndices ==
  \A i \in 1 .. Len(rr_nodes) :
    rr_nodes[i].ptc =
      find_channel_nodes_size(clk, << rr_nodes[i].x, rr_nodes[i].y >>, rr_nodes[i].type)
      + Cardinality(SameChannelBefore(i))

C9_Witness ==
  /\ clk_pc = "check_nodes"
  /\ \E i \in 1 .. Len(rr_nodes) :
       /\ find_channel_nodes_size(clk, << rr_nodes[i].x, rr_nodes[i].y >>,
                                  rr_nodes[i].type) > 1
       /\ Cardinality(SameChannelBefore(i)) > 2
       /\ rr_nodes[i].direction = "DEC"

SingleTypeLevels(c) ==
  \A l \in 1 .. Len(c.levels) :
    \/ c.levels[l]["CHANX"]["INC"] + c.levels[l]["CHANX"]["DEC"] = 0
    \/ c.levels[l]["CHANY"]["INC"] + c.levels[l]["CHANY"]["DEC"] = 0

clock_node_pin(n) ==
  BlockPins(clk, n.type)[n.ptc - find_channel_nodes_size(clk, << n.x, n.y >>, n.type) + 1]

\* The switch point a track runs into: the far end of channel [x][y] for an
\* INC track, its near end for a DEC track.
track_end(n) ==
  IF n.direction = "INC" THEN << n.x, n.y >>
  ELSE IF n.type = "CHANX" THEN << n.x - 1, n.y >> ELSE << n.x, n.y - 1 >>

\* The track d starts at the switch point sp, as clk0_lvl0_chanx[2][1],
\* clk0_lvl1_chany[1][2] and clk0_lvl1_chany[1][1] do at the end of
\* clk0_lvl0_chanx[1][1] in the example.
track_starts_at(d, sp) ==
  IF d.direction = "DEC" THEN << d.x, d.y >> = sp
  ELSE IF d.type = "CHANX" THEN << d.x - 1, d.y >> = sp ELSE << d.x, d.y - 1 >> = sp

\* Same level: straight only.  A turn: one level lower in the tree, that is
\* level + 1.  Always the same tree and the same clock index.
is_track2track_fan_out(s, d) ==
  LET sp == clock_node_pin(s)
      dp == clock_node_pin(d)
  IN /\ sp.tree = dp.tree
     /\ sp.pin = dp.pin
     /\ \/ s.type = d.type /\ s.direction = d.direction /\ dp.lvl = sp.lvl
        \/ s.type # d.type /\ dp.lvl = sp.lvl + 1

track2track_fan_out(s) ==
  {j \in 1 .. Len(rr_nodes) :
     /\ track_starts_at(rr_nodes[j], track_end(s))
     /\ is_track2track_fan_out(s, rr_nodes[j])}

EdgesBetween(s, d) ==
  {k \in 1 .. Len(rr_edges) :
     /\ rr_edges[k].src = s.id
     /\ rr_edges[k].des = d.id
     /\ rr_edges[k].switch = "default_switch"}

\* C12: when edge creation has run, every driver node has exactly one edge,
\* with the default switch, to each node of its fan-out set under the fan-out
\* rule, and the number of edges reported is the sum of the sizes of these
\* sets.
C12_OneEdgePerFanOutNode ==
  clk_pc = "report" =>
    /\ \A i \in 1 .. Len(rr_nodes) :
         \A j \in track2track_fan_out(rr_nodes[i]) :
           Cardinality(EdgesBetween(rr_nodes[i], rr_nodes[j])) = 1
    /\ Len(rr_edges) =
         SumFn([i \in 1 .. Len(rr_nodes) |->
                  Cardinality(track2track_fan_out(rr_nodes[i]))],
               Len(rr_nodes))

\* A level-0 horizontal spine with a level-1 vertical branch at its end, and
\* no edge between them.
C12_Witness ==
  /\ clk_pc = "report"
  /\ clk.num_trees = 1
  /\ \E i \in 1 .. Len(rr_nodes) :
       /\ rr_nodes[i].type = "CHANX"
       /\ \E j \in track2track_fan_out(rr_nodes[i]) : rr_nodes[j].type = "CHANY"
  /\ rr_edges = << >>

(***************************************************************************)
(* Clock edges: the driver lookups                                         *)
(***************************************************************************)
\* The keys add_rr_graph_clock_edges hands to find_node: every pin of every
\* tile that is not bypassed, for both channel types.
QueriedKeys(c) ==
  { LookupKey(ChanxTile(c, p), BlockPins(c, "CHANX")[i]) :
      p \in EligibleTiles(c, "CHANX"), i \in 1 .. Len(BlockPins(c, "CHANX")) } \cup
  { LookupKey(ChanyTile(c, p), BlockPins(c, "CHANY")[i]) :
      p \in EligibleTiles(c, "CHANY"), i \in 1 .. Len(BlockPins(c, "CHANY")) }

InEdgeCreation == clk_pc \in {"chanx_edges", "chany_edges"}

\* C26: from the first step of edge creation on, every key edge creation
\* queries is registered, under the id of a node that was created: no
\* driver lookup misses.
C26_DriverLookupNeverMisses ==
  InEdgeCreation =>
    \A k \in QueriedKeys(clk) :
      /\ k \in DOMAIN clk_lookup
      /\ \E i \in 1 .. Len(rr_nodes) : rr_nodes[i].id = clk_lookup[k]

\* Edge creation has gone through the horizontal tiles of a network with
\* pins in both channel types, some tile being bypassed.
C26_Witness ==
  /\ clk_pc = "chany_edges"
  /\ clk_idx > 0
  /\ Cardinality(QueriedKeys(clk)) > 2
  /\ Len(BlockPins(clk, "CHANX")) > 0
  /\ Len(BlockPins(clk, "CHANY")) > 0
  /\ Cardinality(EligibleTiles(clk, "CHANY")) < NumChanyTiles(clk)

(***************************************************************************)
(* Width of the recorded ranges                                            *)
(***************************************************************************)
\* C30: every range recorded by the allocator and by the unique-module
\* emitters has msb + 1 - lsb equal to the counted bits, without unsigned
\* wrap-around: a block of zero bits gets msb = lsb - 1 and leaves the
\* counter unchanged, also at address 0.
C30_RangeLengthIsCountedBits ==
  cfg.compact =>
    /\ \A k \in BlockKeys(cfg.dev) :
         gsb_conf[k].writes > 0 =>
           gsb_conf[k].msb + 1 - gsb_conf[k].lsb = SumOfSinkBits(k[1], k[2])
    /\ \A u \in 1 .. Len(uniq_log) :
         /\ uniq_log[u].msb + 1 - uniq_log[u].lsb = uniq_log[u].bits
         /\ uniq_log[u].print_msb + 1 - uniq_log[u].print_lsb = uniq_log[u].print_bits

\* A unique switch block of zero bits at address 0: the first emitter hands
\* over -1, the twin the largest size_t value.
C30_Witness ==
  /\ cfg.compact
  /\ \E u \in 1 .. Len(uniq_log) :
       /\ uniq_log[u].t = "SB"
       /\ uniq_log[u].print_bits = 0
       /\ uniq_log[u].print_lsb = 0
       /\ uniq_log[u].msb = uniq_log[u].lsb - 1
       /\ uniq_log[u].print_msb = size_t(0 - 1)
       /\ uniq_log[u].print_msb > uniq_log[u].print_lsb

====
